---------------------------- MODULE Spec2Model ----------------------------
(***************************************************************************)
(* A model of the symbolic reasoning engine of src/src/lib.rs: the         *)
(* knowledge base (symbol table, fact sequence, rule sequence, variable    *)
(* bindings), the two premise evaluators, the two forward-chaining drivers *)
(* and the backward-chaining proof search.                                 *)
(*                                                                         *)
(* Every engine method is a pure operator over a record `self` holding the *)
(* engine's fields (the Rust `&self` / `&mut self`), with the source's     *)
(* name; the actions at the end apply the operators to the state.          *)
(* The `debug` flag only switches printing and is left out.                *)
(***************************************************************************)
EXTENDS Integers, Sequences, FiniteSets, TLC

VARIABLES
    symbols,            \* HashMap<String, Symbol>: a function name -> Symbol
    facts,              \* Vec<Fact>
    rules,              \* Vec<Rule>
    variable_bindings,  \* HashMap<String, FactValue>
    status,             \* "running", "panicked" (a panic!/expect fired) or "diverged"
    panic_msg,          \* the panic message when status = "panicked"
    call                \* observation of the last completed call (see NoCall)

vars == <<symbols, facts, rules, variable_bindings, status, panic_msg, call>>

(***************************************************************************)
(* Data model                                                              *)
(***************************************************************************)

\* struct Symbol { name, symbol_type }
Symbol(name, symbol_type) == [name |-> name, symbol_type |-> symbol_type]

\* enum FactValue. Every variant is a record of the same shape; the fields a
\* variant does not use hold a fixed filler. An f64 is an integral number or NaN.
Integer(i) == [variant |-> "Integer", num |-> i, nan |-> FALSE, bool |-> FALSE, text |-> ""]
Float(x)   == [variant |-> "Float",   num |-> x, nan |-> FALSE, bool |-> FALSE, text |-> ""]
FloatNaN   == [variant |-> "Float",   num |-> 0, nan |-> TRUE,  bool |-> FALSE, text |-> ""]
Boolean(b) == [variant |-> "Boolean", num |-> 0, nan |-> FALSE, bool |-> b,     text |-> ""]
Text(s)    == [variant |-> "Text",    num |-> 0, nan |-> FALSE, bool |-> FALSE, text |-> s]

\* #[derive(PartialEq)] on FactValue: same variant and equal payload; for Float
\* the payloads are compared as f64, so NaN is equal to nothing, itself included.
FactValueEq(a, b) ==
    /\ a.variant = b.variant
    /\ CASE a.variant = "Integer" -> a.num = b.num
         [] a.variant = "Float"   -> ~a.nan /\ ~b.nan /\ a.num = b.num
         [] a.variant = "Boolean" -> a.bool = b.bool
         [] a.variant = "Text"    -> a.text = b.text

\* struct Fact { symbol, value }
Fact(symbol, value) == [symbol |-> symbol, value |-> value]

\* #[derive(PartialEq)] on Fact: symbol (name and symbol_type) and value.
FactEq(f, g) == f.symbol = g.symbol /\ FactValueEq(f.value, g.value)

\* Vec<Fact>::contains / <[Fact]>::contains
VecContains(vec, f) == \E i \in 1..Len(vec) : FactEq(vec[i], f)

\* enum ComparableValue
Direct(v)          == [cv |-> "Direct", value |-> v, symbol |-> Symbol("", ""), name |-> ""]
BySymbol(s)        == [cv |-> "Symbol", value |-> Integer(0), symbol |-> s, name |-> ""]
BySymbolName(n)    == [cv |-> "SymbolName", value |-> Integer(0), symbol |-> Symbol("", ""), name |-> n]

\* enum LogicalOperator. As for FactValue, one record shape for every variant:
\* And/Or/Not use args, AtomicFact uses fact, the six comparisons use left and right.
NoFact == Fact(Symbol("", ""), Integer(0))
NoOperand == Direct(Integer(0))
And(expressions)   == [op |-> "And", args |-> expressions, fact |-> NoFact, left |-> NoOperand, right |-> NoOperand]
Or(expressions)    == [op |-> "Or", args |-> expressions, fact |-> NoFact, left |-> NoOperand, right |-> NoOperand]
Not(expression)    == [op |-> "Not", args |-> <<expression>>, fact |-> NoFact, left |-> NoOperand, right |-> NoOperand]
AtomicFact(f)      == [op |-> "AtomicFact", args |-> <<>>, fact |-> f, left |-> NoOperand, right |-> NoOperand]
Relational(op, l, r) == [op |-> op, args |-> <<>>, fact |-> NoFact, left |-> l, right |-> r]
GreaterThan(l, r)          == Relational("GreaterThan", l, r)
LessThan(l, r)             == Relational("LessThan", l, r)
EqualTo(l, r)              == Relational("EqualTo", l, r)
NotEqualTo(l, r)           == Relational("NotEqualTo", l, r)
GreaterThanOrEqualTo(l, r) == Relational("GreaterThanOrEqualTo", l, r)
LessThanOrEqualTo(l, r)    == Relational("LessThanOrEqualTo", l, r)

RelationalOps == {"GreaterThan", "LessThan", "EqualTo", "NotEqualTo",
                  "GreaterThanOrEqualTo", "LessThanOrEqualTo"}

\* struct Rule { premise, conclusion }
Rule(premise, conclusion) == [premise |-> premise, conclusion |-> conclusion]

\* The engine as one record: what a method reads through `&self`.
Engine(s, f, r, vb) == [symbols |-> s, facts |-> f, rules |-> r, variable_bindings |-> vb]
Self == Engine(symbols, facts, rules, variable_bindings)

\* An empty HashMap.
EmptyMap == [k \in {} |-> Integer(0)]

\* HashMap::insert(key, value): insert or overwrite.
MapInsert(m, k, v) == [x \in DOMAIN m \cup {k} |-> IF x = k THEN v ELSE m[x]]

\* HashMap::extend(other): every entry of `other` inserted or overwritten.
MapExtend(m, other) ==
    [x \in DOMAIN m \cup DOMAIN other |-> IF x \in DOMAIN other THEN other[x] ELSE m[x]]

\* SymbolicReasoningEngine::new()
new == Engine(EmptyMap, <<>>, <<>>, EmptyMap)

(***************************************************************************)
(* Panic messages                                                          *)
(***************************************************************************)
MsgSymbolAlreadyDefined == "Symbol already defined"
MsgSymbolNotFound       == "Symbol not found in knowledge base"
MsgUnsupportedDirect    == "Unsupported FactValue type from ComparableValue::Direct for conversion to f64"
MsgUnsupportedSymbol    == "Unsupported FactValue type from ComparableValue::Symbol for conversion to f64"
MsgUnsupportedName      == "Unsupported FactValue type from ComparableValue::SymbolName for conversion to f64"
MsgNoVisited            == "Backward chaining calls to evaluate_logical_expression must provide visited rules"

(***************************************************************************)
(* Fact lookup and comparison operands                                     *)
(***************************************************************************)

\* An f64, or the panic that ended its computation.
F64(num)      == [panic |-> FALSE, msg |-> "", num |-> num, nan |-> FALSE]
F64NaN        == [panic |-> FALSE, msg |-> "", num |-> 0, nan |-> TRUE]
F64Panic(msg) == [panic |-> TRUE, msg |-> msg, num |-> 0, nan |-> FALSE]

\* Iterator::find_map over self.facts: the first of the indices that pass the
\* closure's test, 0 for None.
FirstIndex(indices) ==
    IF indices = {} THEN 0
    ELSE CHOOSE i \in indices : \A j \in indices : i <= j

\* get_fact_from_symbol: the first stored fact whose symbol equals `symbol`
\* (0 for None, else its index in self.facts).
get_fact_from_symbol(self, symbol) ==
    FirstIndex({i \in 1..Len(self.facts) : self.facts[i].symbol = symbol})

\* get_fact_value: the first stored fact with the symbol of `fact` AND an
\* Integer or Float value, as f64 (0 for None, else its index).
get_fact_value(self, fact) ==
    FirstIndex({i \in 1..Len(self.facts) :
                   /\ self.facts[i].symbol = fact.symbol
                   /\ self.facts[i].value.variant \in {"Integer", "Float"}})

\* `value as f64` for an Integer (an i32, which every f64 holds exactly), the
\* f64 itself for a Float.
AsF64(v) == IF v.variant = "Float" /\ v.nan THEN F64NaN ELSE F64(v.num)

\* The end of the Symbol arm: what get_fact_value found (vi) for the fact.
ResolvedValue(self, vi, unsupported) ==
    IF vi = 0 THEN F64Panic(unsupported) ELSE AsF64(self.facts[vi].value)

\* A Symbol arm that takes 0.0 for a symbol without a fact.
ResolvedFactOrZero(self, fi, unsupported) ==
    IF fi = 0 THEN F64(0)
    ELSE ResolvedValue(self, get_fact_value(self, self.facts[fi]), unsupported)

\* The Symbol arm after get_fact_from_symbol found the fact at index fi (0: None).
ResolvedFact(self, fi, unsupported) ==
    IF fi = 0 THEN F64Panic(MsgSymbolNotFound)
    ELSE ResolvedValue(self, get_fact_value(self, self.facts[fi]), unsupported)

\* The Symbol arm of resolve_comparable_value, shared by the SymbolName arm.
ResolveSymbol(self, symbol, unsupported) ==
    ResolvedFact(self, get_fact_from_symbol(self, symbol), unsupported)

resolve_comparable_value(self, value) ==
    CASE value.cv = "Direct" ->
            IF value.value.variant \in {"Integer", "Float"}
            THEN AsF64(value.value)
            ELSE F64Panic(MsgUnsupportedDirect)
      [] value.cv = "Symbol" ->
            ResolveSymbol(self, value.symbol, MsgUnsupportedSymbol)
      [] value.cv = "SymbolName" ->
            IF value.name \notin DOMAIN self.symbols
            THEN F64Panic(MsgSymbolNotFound)
            ELSE ResolveSymbol(self, self.symbols[value.name], MsgUnsupportedName)

\* Closures in which < is <=.
ComparisonNonStrict(op, a, b) ==
    CASE op = "GreaterThan"          -> ~a.nan /\ ~b.nan /\ a.num > b.num
      [] op = "LessThan"             -> ~a.nan /\ ~b.nan /\ a.num <= b.num
      [] op = "EqualTo"              -> ~a.nan /\ ~b.nan /\ a.num = b.num
      [] op = "NotEqualTo"           -> a.nan \/ b.nan \/ a.num # b.num
      [] op = "GreaterThanOrEqualTo" -> ~a.nan /\ ~b.nan /\ a.num >= b.num
      [] op = "LessThanOrEqualTo"    -> ~a.nan /\ ~b.nan /\ a.num <= b.num

\* The closures |a, b| a > b, ... on f64: every comparison with NaN is false
\* except !=, which is true.
Comparison(op, a, b) ==
    CASE op = "GreaterThan"          -> ~a.nan /\ ~b.nan /\ a.num > b.num
      [] op = "LessThan"             -> ~a.nan /\ ~b.nan /\ a.num < b.num
      [] op = "EqualTo"              -> ~a.nan /\ ~b.nan /\ a.num = b.num
      [] op = "NotEqualTo"           -> a.nan \/ b.nan \/ a.num # b.num
      [] op = "GreaterThanOrEqualTo" -> ~a.nan /\ ~b.nan /\ a.num >= b.num
      [] op = "LessThanOrEqualTo"    -> ~a.nan /\ ~b.nan /\ a.num <= b.num

\* A bool, or the panic that ended its computation.
BoolOk(b)      == [panic |-> FALSE, msg |-> "", val |-> b]
BoolPanic(msg) == [panic |-> TRUE, msg |-> msg, val |-> FALSE]

\* comparison(left_value, right_value), unless resolving an operand panicked.
Compared(left_value, right_value, comparison) ==
    IF left_value.panic THEN BoolPanic(left_value.msg)
    ELSE IF right_value.panic THEN BoolPanic(right_value.msg)
    ELSE BoolOk(Comparison(comparison, left_value, right_value))

\* compare_values: the left operand is resolved first, then the right one; a
\* panic of the left one is the panic of the call.
compare_values(self, left, right, comparison) ==
    Compared(resolve_comparable_value(self, left),
             resolve_comparable_value(self, right), comparison)

\* A match_fact that compares the names of the symbols and not their types.
match_fact_by_name(self, fact, known_fact) ==
    /\ fact.symbol.name = known_fact.symbol.name
    /\ FactValueEq(fact.value, known_fact.value)

\* match_fact
match_fact(self, fact, known_fact) ==
    IF fact.symbol # known_fact.symbol THEN FALSE
    ELSE CASE fact.value.variant = "Integer" /\ known_fact.value.variant = "Integer" ->
                fact.value.num = known_fact.value.num
           [] fact.value.variant = "Float" /\ known_fact.value.variant = "Float" ->
                /\ ~fact.value.nan /\ ~known_fact.value.nan
                /\ fact.value.num = known_fact.value.num
           [] fact.value.variant = "Boolean" /\ known_fact.value.variant = "Boolean" ->
                fact.value.bool = known_fact.value.bool
           [] fact.value.variant = "Text" /\ known_fact.value.variant = "Text" ->
                fact.value.text = known_fact.value.text
           [] OTHER -> FALSE

(***************************************************************************)
(* The boolean evaluator                                                   *)
(***************************************************************************)
RECURSIVE is_premise_true(_, _)
RECURSIVE PremiseAll(_, _, _)
RECURSIVE PremiseAny(_, _, _)
RECURSIVE AllNext(_, _, _, _)
RECURSIVE AnyNext(_, _, _, _)

\* The conjunction of a child's value with that of the children after it.
AllBoth(res, rest) == IF rest.panic THEN rest ELSE BoolOk(res.val /\ rest.val)

\* An Iterator::all that evaluates the children after a false child too.
AllNextEager(self, expressions, i, res) ==
    IF res.panic THEN res
    ELSE AllBoth(res, PremiseAll(self, expressions, i + 1))

\* Iterator::all after child i returned res: stops at the first false child.
AllNext(self, expressions, i, res) ==
    IF res.panic THEN res
    ELSE IF ~res.val THEN BoolOk(FALSE)
    ELSE PremiseAll(self, expressions, i + 1)

\* Iterator::all over the children from index i.
PremiseAll(self, expressions, i) ==
    IF i > Len(expressions) THEN BoolOk(TRUE)
    ELSE AllNext(self, expressions, i, is_premise_true(self, expressions[i]))

\* An Iterator::any that does not stop at a true child and so finds none.
AnyNextNever(self, expressions, i, res) ==
    IF res.panic THEN res
    ELSE PremiseAny(self, expressions, i + 1)

\* Iterator::any after child i returned res: stops at the first true child.
AnyNext(self, expressions, i, res) ==
    IF res.panic THEN res
    ELSE IF res.val THEN BoolOk(TRUE)
    ELSE PremiseAny(self, expressions, i + 1)

\* Iterator::any over the children from index i.
PremiseAny(self, expressions, i) ==
    IF i > Len(expressions) THEN BoolOk(FALSE)
    ELSE AnyNext(self, expressions, i, is_premise_true(self, expressions[i]))

\* A Not arm that returns the child's value as it is.
NegatedChild(res) == res

\* `!res`, unless evaluating the child panicked.
Negated(res) == IF res.panic THEN res ELSE BoolOk(~res.val)

is_premise_true(self, expression) ==
    CASE expression.op = "And" -> PremiseAll(self, expression.args, 1)
      [] expression.op = "Or"  -> PremiseAny(self, expression.args, 1)
      [] expression.op = "Not" -> Negated(is_premise_true(self, expression.args[1]))
      [] expression.op = "AtomicFact" ->
            BoolOk(VecContains(self.facts, expression.fact))
      [] expression.op \in RelationalOps ->
            compare_values(self, expression.left, expression.right, expression.op)

(***************************************************************************)
(* The binding evaluator and the backward-chaining search                  *)
(*                                                                         *)
(* The two are mutually recursive and share the `visited` vector through a *)
(* &mut reference; here the vector is threaded through the calls in a      *)
(* context record and handed back with every result.  Beside `visited` the *)
(* context carries two observations that the code does not hold: `active`, *)
(* the goals of the search_for_rules calls now on the call stack, and      *)
(* `trace`, one event per entry to and return from search_for_rules.       *)
(***************************************************************************)

\* visited: &mut Option<&mut Vec<Fact>>
Ctx(has_visited, visited, active, trace) ==
    [has_visited |-> has_visited, visited |-> visited, active |-> active, trace |-> trace]

\* `&mut None`: what match_rule passes.
NoVisited == Ctx(FALSE, <<>>, <<>>, <<>>)

\* One event of the trace: `ancestors` are the goals of the calls above this one.
Event(ev, goal, visited, ancestors, ret) ==
    [ev |-> ev, goal |-> goal, visited |-> visited, ancestors |-> ancestors, ret |-> ret]

\* Option<HashMap<String, FactValue>>, or the panic or stack exhaustion that
\* ended the evaluation.
\* A Some that holds a new, empty map instead of the clone of existing_bindings.
EvSomeEmpty(bindings, ctx) == [panic |-> FALSE, msg |-> "", diverged |-> FALSE,
                               some |-> TRUE, bindings |-> EmptyMap, ctx |-> ctx]

EvSome(bindings, ctx) == [panic |-> FALSE, msg |-> "", diverged |-> FALSE,
                          some |-> TRUE, bindings |-> bindings, ctx |-> ctx]
EvNone(ctx)           == [panic |-> FALSE, msg |-> "", diverged |-> FALSE,
                          some |-> FALSE, bindings |-> EmptyMap, ctx |-> ctx]
EvPanic(msg, ctx)     == [panic |-> TRUE, msg |-> msg, diverged |-> FALSE,
                          some |-> FALSE, bindings |-> EmptyMap, ctx |-> ctx]
EvDiverged(ctx)       == [panic |-> FALSE, msg |-> "", diverged |-> TRUE,
                          some |-> FALSE, bindings |-> EmptyMap, ctx |-> ctx]

\* The bool search_for_rules returns, or how it ended otherwise.
SearchRet(ret, ctx)   == [panic |-> FALSE, msg |-> "", diverged |-> FALSE, ret |-> ret, ctx |-> ctx]
SearchPanic(msg, ctx) == [panic |-> TRUE, msg |-> msg, diverged |-> FALSE, ret |-> FALSE, ctx |-> ctx]
SearchDiverged(ctx)   == [panic |-> FALSE, msg |-> "", diverged |-> TRUE, ret |-> FALSE, ctx |-> ctx]

\* A detect_cycle that never reports a cycle: search_for_rules without step 1.
detect_cycle_never(self, current, visited) == FALSE

\* detect_cycle
detect_cycle(self, current, visited) == VecContains(visited, current)

\* The call stack is finite. A search_for_rules call that recurses has pushed a
\* goal equal to a rule's conclusion, so a search that never repeats a goal on
\* its path is at most Len(self.rules) + 1 calls deep; a deeper one repeats a
\* goal below itself and recurses until the stack is exhausted.
StackLimit(self) == Len(self.rules) + 1

\* A filter that takes every rule concluding the goal's symbol, whatever the value.
applicable_rules_by_symbol(self, goal) ==
    SelectSeq([i \in 1..Len(self.rules) |-> i],
              LAMBDA i : self.rules[i].conclusion.symbol = goal.symbol)

\* self.rules.iter().filter(|rule| &rule.conclusion == goal), as rule indices.
applicable_rules(self, goal) ==
    SelectSeq([i \in 1..Len(self.rules) |-> i],
              LAMBDA i : FactEq(self.rules[i].conclusion, goal))

\* An AtomicFact arm that takes every fact for known once a variable is bound.
MatchesKnownFactOrBound(self, fact) ==
    \/ DOMAIN self.variable_bindings # {}
    \/ \E i \in 1..Len(self.facts) : match_fact(self, fact, self.facts[i])

\* The `for known_fact in &self.facts` loops of the AtomicFact arm.
MatchesKnownFact(self, fact) ==
    \E i \in 1..Len(self.facts) : match_fact(self, fact, self.facts[i])

\* A step 2 that looks for the goal itself, symbol and value.
DirectHitFact(self, goal) == VecContains(self.facts, goal)

\* Step 2 of search_for_rules: some stored fact's value equals the goal's value.
DirectHit(self, goal) ==
    \E i \in 1..Len(self.facts) : FactValueEq(self.facts[i].value, goal.value)

RECURSIVE evaluate_logical_expression(_, _, _, _, _)
RECURSIVE EvalAnd(_, _, _, _, _, _)
RECURSIVE AndNext(_, _, _, _, _)
RECURSIVE EvalOr(_, _, _, _, _, _)
RECURSIVE OrNext(_, _, _, _, _, _)
RECURSIVE search_for_rules(_, _, _)
RECURSIVE Entered(_, _, _, _)
RECURSIVE TryRules(_, _, _, _, _)
RECURSIVE RuleTried(_, _, _, _, _)

\* The And arm after child i returned r: None, a panic or stack exhaustion
\* ends the loop, Some(bindings) replaces combined_bindings.
AndNext(self, expressions, i, use_backward_chaining, r) ==
    IF r.panic \/ r.diverged \/ ~r.some THEN r
    ELSE EvalAnd(self, expressions, i + 1, r.bindings, use_backward_chaining, r.ctx)

\* The And arm: each child sees the bindings the previous one returned.
EvalAnd(self, expressions, i, combined_bindings, use_backward_chaining, ctx) ==
    IF i > Len(expressions) THEN EvSome(combined_bindings, ctx)
    ELSE AndNext(self, expressions, i, use_backward_chaining,
                 evaluate_logical_expression(self, expressions[i], combined_bindings,
                                             use_backward_chaining, ctx))

\* The Or arm after child i returned r: find_map stops at the first Some.
OrNext(self, expressions, i, existing_bindings, use_backward_chaining, r) ==
    IF r.panic \/ r.diverged \/ r.some THEN r
    ELSE EvalOr(self, expressions, i + 1, existing_bindings, use_backward_chaining, r.ctx)

\* The Or arm: find_map, every child evaluated against the incoming bindings.
EvalOr(self, expressions, i, existing_bindings, use_backward_chaining, ctx) ==
    IF i > Len(expressions) THEN EvNone(ctx)
    ELSE OrNext(self, expressions, i, existing_bindings, use_backward_chaining,
                evaluate_logical_expression(self, expressions[i], existing_bindings,
                                            use_backward_chaining, ctx))

\* A Not arm that hands on the child's result instead of inverting it.
NotOfChild(existing_bindings, r) == r

\* The Not arm after the child returned r.
NotOf(existing_bindings, r) ==
    IF r.panic \/ r.diverged THEN r
    ELSE IF r.some THEN EvNone(r.ctx)
    ELSE EvSome(existing_bindings, r.ctx)

\* The AtomicFact arm after search_for_rules returned s.
Searched(existing_bindings, s) ==
    IF s.panic THEN EvPanic(s.msg, s.ctx)
    ELSE IF s.diverged THEN EvDiverged(s.ctx)
    ELSE IF s.ret THEN EvSome(existing_bindings, s.ctx)
    ELSE EvNone(s.ctx)

\* A comparison arm after compare_values returned c.
ComparedTo(existing_bindings, ctx, c) ==
    IF c.panic THEN EvPanic(c.msg, ctx)
    ELSE IF c.val THEN EvSome(existing_bindings, ctx)
    ELSE EvNone(ctx)

evaluate_logical_expression(self, expression, existing_bindings, use_backward_chaining, ctx) ==
    CASE expression.op = "And" ->
            EvalAnd(self, expression.args, 1, existing_bindings, use_backward_chaining, ctx)
      [] expression.op = "Or" ->
            EvalOr(self, expression.args, 1, existing_bindings, use_backward_chaining, ctx)
      [] expression.op = "Not" ->
            NotOf(existing_bindings,
                  evaluate_logical_expression(self, expression.args[1], existing_bindings,
                                              use_backward_chaining, ctx))
      [] expression.op = "AtomicFact" ->
            IF MatchesKnownFact(self, expression.fact) THEN EvSome(existing_bindings, ctx)
            ELSE IF ~use_backward_chaining THEN EvNone(ctx)
            ELSE IF ~ctx.has_visited THEN EvPanic(MsgNoVisited, ctx)
            ELSE Searched(existing_bindings, search_for_rules(self, expression.fact, ctx))
      [] expression.op \in RelationalOps ->
            ComparedTo(existing_bindings, ctx,
                       compare_values(self, expression.left, expression.right, expression.op))

\* The context after visited.push(goal).
Pushed(ctx, goal) == Ctx(TRUE, Append(ctx.visited, goal), ctx.active, ctx.trace)

\* The context after visited.pop().
Popped(ctx) == Ctx(TRUE, SubSeq(ctx.visited, 1, Len(ctx.visited) - 1), ctx.active, ctx.trace)

\* The goals of the calls above the one that is returning.
Ancestors(ctx) == SubSeq(ctx.active, 1, Len(ctx.active) - 1)

\* The end of a search_for_rules call: the call leaves the stack and its
\* return is recorded. `ctx` is the context at the return, this call still active.
Return(goal, ret, ctx) ==
    SearchRet(ret, Ctx(TRUE, ctx.visited, Ancestors(ctx),
                       Append(ctx.trace,
                              Event("return", goal, ctx.visited, Ancestors(ctx), ret))))

\* Step 3 after the k-th applicable rule's premise evaluated to r: Some returns
\* true at once, `visited` left as it is.
RuleTried(self, goal, applicable, k, r) ==
    IF r.panic THEN SearchPanic(r.msg, r.ctx)
    ELSE IF r.diverged THEN SearchDiverged(r.ctx)
    ELSE IF r.some THEN Return(goal, TRUE, r.ctx)
    ELSE TryRules(self, goal, applicable, k + 1, r.ctx)

\* Step 3 of search_for_rules: the applicable rules from the k-th on; after
\* the last one the goal is popped and the search returns false.
TryRules(self, goal, applicable, k, ctx) ==
    IF k > Len(applicable) THEN Return(goal, FALSE, Popped(ctx))
    ELSE RuleTried(self, goal, applicable, k,
                   evaluate_logical_expression(self, self.rules[applicable[k]].premise,
                                               self.variable_bindings, TRUE, ctx))

\* A search_for_rules whose step 1 returns true: a goal met again below
\* itself counts as proven.
EnteredCycleProven(self, goal, visited, entered) ==
    IF Len(entered.active) > StackLimit(self) THEN SearchDiverged(entered)
    ELSE IF detect_cycle(self, goal, visited) THEN Return(goal, TRUE, entered)
    ELSE IF DirectHit(self, goal) THEN Return(goal, TRUE, entered)
    ELSE TryRules(self, goal, applicable_rules(self, goal), 1, Pushed(entered, goal))

\* search_for_rules once the call is on the stack and recorded as entered.
Entered(self, goal, visited, entered) ==
    IF Len(entered.active) > StackLimit(self) THEN SearchDiverged(entered)
    ELSE IF detect_cycle(self, goal, visited) THEN Return(goal, FALSE, entered)
    ELSE IF DirectHit(self, goal) THEN Return(goal, TRUE, entered)
    ELSE TryRules(self, goal, applicable_rules(self, goal), 1, Pushed(entered, goal))

search_for_rules(self, goal, ctx) ==
    Entered(self, goal, ctx.visited,
            Ctx(TRUE, ctx.visited, Append(ctx.active, goal),
                Append(ctx.trace, Event("enter", goal, ctx.visited, ctx.active, FALSE))))

\* A specify_goal whose `visited` still holds the goal of an earlier query
\* for the same goal.
specify_goal_kept(self, goal) == search_for_rules(self, goal, Ctx(TRUE, <<goal>>, <<>>, <<>>))

\* specify_goal: a fresh `visited` for every query.
specify_goal(self, goal) == search_for_rules(self, goal, Ctx(TRUE, <<>>, <<>>, <<>>))

\* match_rule
match_rule(self, premise) ==
    evaluate_logical_expression(self, premise, self.variable_bindings, FALSE, NoVisited)

\* apply_rule_conclusion
apply_rule_conclusion(self, conclusion) == conclusion

(***************************************************************************)
(* The mutators                                                            *)
(***************************************************************************)

\* What a `&mut self` method leaves: the engine after the call and whether
\* the call panicked.
Done(self)             == [panic |-> FALSE, msg |-> "", diverged |-> FALSE, self |-> self]
Panicked(msg, self)    == [panic |-> TRUE, msg |-> msg, diverged |-> FALSE, self |-> self]

\* find_symbol
find_symbol(self, name) == name \in DOMAIN self.symbols

\* A define_symbol without the find_symbol check: HashMap::insert replaces
\* the symbol stored under the name.
define_symbol_unchecked(self, name, symbol_type) ==
    Done([self EXCEPT !.symbols = MapInsert(self.symbols, name, Symbol(name, symbol_type))])

\* define_symbol
define_symbol(self, name, symbol_type) ==
    LET symbol == Symbol(name, symbol_type)
    IN IF find_symbol(self, name) THEN Panicked(MsgSymbolAlreadyDefined, self)
       ELSE Done([self EXCEPT !.symbols = MapInsert(self.symbols, name, symbol)])

\* An assert_variable that keeps the value a name is already bound to.
assert_variable_once(self, var_name, value) ==
    IF var_name \in DOMAIN self.variable_bindings THEN Done(self)
    ELSE Done([self EXCEPT !.variable_bindings = MapInsert(self.variable_bindings, var_name, value)])

\* assert_variable
assert_variable(self, var_name, value) ==
    Done([self EXCEPT !.variable_bindings = MapInsert(self.variable_bindings, var_name, value)])

\* An assert_fact that skips a fact that is already stored.
assert_fact_unique(self, symbol, value) ==
    IF VecContains(self.facts, Fact(symbol, value)) THEN Done(self)
    ELSE Done([self EXCEPT !.facts = Append(self.facts, Fact(symbol, value))])

\* assert_fact
assert_fact(self, symbol, value) ==
    Done([self EXCEPT !.facts = Append(self.facts, Fact(symbol, value))])

\* A define_rule that puts the rule before the stored rules.
define_rule_front(self, premise, conclusion) ==
    Done([self EXCEPT !.rules = <<Rule(premise, conclusion)>> \o self.rules])

\* define_rule
define_rule(self, premise, conclusion) ==
    Done([self EXCEPT !.rules = Append(self.rules, Rule(premise, conclusion))])

\* determine_variable_value: Option<&FactValue> as a sequence of at most one value.
determine_variable_value(self, var_name) ==
    IF var_name \in DOMAIN self.variable_bindings
    THEN <<self.variable_bindings[var_name]>>
    ELSE <<>>

(***************************************************************************)
(* The forward-chaining drivers                                            *)
(***************************************************************************)
RECURSIVE StageNewFacts(_, _, _)
RECURSIVE Staged(_, _, _, _)
RECURSIVE MatchRules(_, _, _)
RECURSIVE Matched(_, _, _, _)
RECURSIVE AddConclusions(_, _, _, _)
RECURSIVE FixpointLoop(_, _, _)
RECURSIVE Iterated(_, _, _, _)
RECURSIVE Added(_, _, _, _)

\* What the rule loop of forward_chaining leaves: new_facts, or a panic.
Staging(panic, msg, new_facts) == [panic |-> panic, msg |-> msg, new_facts |-> new_facts]

\* A loop body that pushes the conclusion onto self.facts at once, where the
\* premises of the later rules see it.
StagedAtOnce(self, i, new_facts, res) ==
    IF res.panic THEN Staging(TRUE, res.msg, new_facts)
    ELSE IF res.val /\ ~VecContains(self.facts, self.rules[i].conclusion)
    THEN StageNewFacts([self EXCEPT !.facts = Append(self.facts, self.rules[i].conclusion)],
                       i + 1, Append(new_facts, self.rules[i].conclusion))
    ELSE StageNewFacts(self, i + 1, new_facts)

\* A loop body without the `!self.facts.contains` test.
StagedUnchecked(self, i, new_facts, res) ==
    IF res.panic THEN Staging(TRUE, res.msg, new_facts)
    ELSE IF res.val
    THEN StageNewFacts(self, i + 1, Append(new_facts, self.rules[i].conclusion))
    ELSE StageNewFacts(self, i + 1, new_facts)

\* A loop that ends with the first conclusion it stages.
StagedFirst(self, i, new_facts, res) ==
    IF res.panic THEN Staging(TRUE, res.msg, new_facts)
    ELSE IF res.val /\ ~VecContains(self.facts, self.rules[i].conclusion)
    THEN Staging(FALSE, "", Append(new_facts, self.rules[i].conclusion))
    ELSE StageNewFacts(self, i + 1, new_facts)

\* The body of the loop for rule i once its premise evaluated to res.
Staged(self, i, new_facts, res) ==
    IF res.panic THEN Staging(TRUE, res.msg, new_facts)
    ELSE IF res.val /\ ~VecContains(self.facts, self.rules[i].conclusion)
    THEN StageNewFacts(self, i + 1, Append(new_facts, self.rules[i].conclusion))
    ELSE StageNewFacts(self, i + 1, new_facts)

\* The loop of forward_chaining from rule i on: every premise is evaluated
\* against self.facts, which the loop does not change; new_facts collects the
\* conclusions that self.facts does not contain.
StageNewFacts(self, i, new_facts) ==
    IF i > Len(self.rules) THEN Staging(FALSE, "", new_facts)
    ELSE Staged(self, i, new_facts, is_premise_true(self, self.rules[i].premise))

\* An extend that puts new_facts before the stored facts.
ExtendedFront(self, staged) ==
    IF staged.panic THEN Panicked(staged.msg, self)
    ELSE Done([self EXCEPT !.facts = staged.new_facts \o self.facts])

\* A forward_chaining that pushes each conclusion when its rule fires, so
\* that a panic leaves the conclusions of the rules before it.
ExtendedPartial(self, staged) ==
    IF staged.panic
    THEN Panicked(staged.msg, [self EXCEPT !.facts = self.facts \o staged.new_facts])
    ELSE Done([self EXCEPT !.facts = self.facts \o staged.new_facts])

\* self.facts.extend(new_facts), unless the rule loop panicked.
Extended(self, staged) ==
    IF staged.panic THEN Panicked(staged.msg, self)
    ELSE Done([self EXCEPT !.facts = self.facts \o staged.new_facts])

\* forward_chaining: one pass, then self.facts.extend(new_facts).
forward_chaining(self) == Extended(self, StageNewFacts(self, 1, <<>>))

\* What the rule loop of one iteration leaves: the engine (its bindings
\* extended) and conclusions_to_add, or a panic.
Matching(panic, msg, self, conclusions_to_add) ==
    [panic |-> panic, msg |-> msg, self |-> self, conclusions_to_add |-> conclusions_to_add]

\* A rule loop that ends at the first rule whose premise does not hold.
MatchedUntilNone(self, i, conclusions_to_add, m) ==
    IF m.panic THEN Matching(TRUE, m.msg, self, conclusions_to_add)
    ELSE IF m.some
    THEN MatchRules([self EXCEPT !.variable_bindings =
                        MapExtend(self.variable_bindings, m.bindings)],
                    i + 1,
                    Append(conclusions_to_add,
                           apply_rule_conclusion(self, self.rules[i].conclusion)))
    ELSE Matching(FALSE, "", self, conclusions_to_add)

\* The body of the loop for rule i once match_rule returned m.
Matched(self, i, conclusions_to_add, m) ==
    IF m.panic THEN Matching(TRUE, m.msg, self, conclusions_to_add)
    ELSE IF m.some
    THEN MatchRules([self EXCEPT !.variable_bindings =
                        MapExtend(self.variable_bindings, m.bindings)],
                    i + 1,
                    Append(conclusions_to_add,
                           apply_rule_conclusion(self, self.rules[i].conclusion)))
    ELSE MatchRules(self, i + 1, conclusions_to_add)

\* The `for rule in self.rules.clone()` loop of one iteration, from rule i on.
MatchRules(self, i, conclusions_to_add) ==
    IF i > Len(self.rules) THEN Matching(FALSE, "", self, conclusions_to_add)
    ELSE Matched(self, i, conclusions_to_add, match_rule(self, self.rules[i].premise))

RECURSIVE AddConclusionsUnflagged(_, _, _, _)
\* The same loop without `new_facts_added = true`: the facts are appended and
\* the flag stays as it was.
AddConclusionsUnflagged(self_facts, conclusions_to_add, j, new_facts_added) ==
    IF j > Len(conclusions_to_add)
    THEN [facts |-> self_facts, new_facts_added |-> new_facts_added]
    ELSE IF ~VecContains(self_facts, conclusions_to_add[j])
    THEN AddConclusionsUnflagged(Append(self_facts, conclusions_to_add[j]),
                                 conclusions_to_add, j + 1, new_facts_added)
    ELSE AddConclusionsUnflagged(self_facts, conclusions_to_add, j + 1, new_facts_added)

\* The `for new_fact in conclusions_to_add` loop, from conclusion j on.
AddConclusions(self_facts, conclusions_to_add, j, new_facts_added) ==
    IF j > Len(conclusions_to_add)
    THEN [facts |-> self_facts, new_facts_added |-> new_facts_added]
    ELSE IF ~VecContains(self_facts, conclusions_to_add[j])
    THEN AddConclusions(Append(self_facts, conclusions_to_add[j]), conclusions_to_add, j + 1, TRUE)
    ELSE AddConclusions(self_facts, conclusions_to_add, j + 1, new_facts_added)

\* An iteration that appends a fact either stores a conclusion that no later
\* iteration appends again, or leaves every premise as it found it and is
\* then repeated for ever. A loop that returns therefore returns within
\* Len(self.rules) + 1 iterations.
IterationLimit(self) == Len(self.rules) + 1

\* What forward_chaining_with_variables leaves: the engine, and Len(self.facts)
\* at the start and after every completed iteration.
Fixpoint(panic, msg, diverged, self, fact_counts) ==
    [panic |-> panic, msg |-> msg, diverged |-> diverged, self |-> self,
     fact_counts |-> fact_counts]

\* A loop that ends after its first iteration, whatever that one appended.
AddedOnePass(self, n, fact_counts, added) ==
    Fixpoint(FALSE, "", FALSE, [self EXCEPT !.facts = added.facts],
             Append(fact_counts, Len(added.facts)))

\* The end of iteration n: the loop goes on while new_facts_added.
Added(self, n, fact_counts, added) ==
    IF ~added.new_facts_added
    THEN Fixpoint(FALSE, "", FALSE, [self EXCEPT !.facts = added.facts],
                  Append(fact_counts, Len(added.facts)))
    ELSE IF n >= IterationLimit(self)
    THEN Fixpoint(FALSE, "", TRUE, [self EXCEPT !.facts = added.facts],
                  Append(fact_counts, Len(added.facts)))
    ELSE FixpointLoop([self EXCEPT !.facts = added.facts], n + 1,
                      Append(fact_counts, Len(added.facts)))

RECURSIVE AddStaged(_, _, _, _, _)
\* A `for new_fact in conclusions_to_add` loop that tests every conclusion
\* against the facts stored when the loop began.
AddStaged(stored, self_facts, conclusions_to_add, j, new_facts_added) ==
    IF j > Len(conclusions_to_add)
    THEN [facts |-> self_facts, new_facts_added |-> new_facts_added]
    ELSE IF ~VecContains(stored, conclusions_to_add[j])
    THEN AddStaged(stored, Append(self_facts, conclusions_to_add[j]),
                   conclusions_to_add, j + 1, TRUE)
    ELSE AddStaged(stored, self_facts, conclusions_to_add, j + 1, new_facts_added)

\* An iteration that appends its conclusions as forward_chaining does.
IteratedStaged(self, n, fact_counts, matched) ==
    IF matched.panic THEN Fixpoint(TRUE, matched.msg, FALSE, matched.self, fact_counts)
    ELSE Added(matched.self, n, fact_counts,
               AddStaged(matched.self.facts, matched.self.facts,
                         matched.conclusions_to_add, 1, FALSE))

\* Iteration n once its rule loop left `matched`.
Iterated(self, n, fact_counts, matched) ==
    IF matched.panic THEN Fixpoint(TRUE, matched.msg, FALSE, matched.self, fact_counts)
    ELSE Added(matched.self, n, fact_counts,
               AddConclusions(matched.self.facts, matched.conclusions_to_add, 1, FALSE))

\* The `while new_facts_added` loop from iteration n on.
FixpointLoop(self, n, fact_counts) ==
    Iterated(self, n, fact_counts, MatchRules(self, 1, <<>>))

\* forward_chaining_with_variables
forward_chaining_with_variables(self) == FixpointLoop(self, 1, <<Len(self.facts)>>)

(***************************************************************************)
(* The inputs the calls are made with                                      *)
(***************************************************************************)
SA == Symbol("A", "Boolean")
SB == Symbol("B", "Boolean")
SC == Symbol("C", "Boolean")
ST == Symbol("T", "Integer")

fA  == Fact(SA, Boolean(TRUE))
fB  == Fact(SB, Boolean(TRUE))
fC  == Fact(SC, Boolean(TRUE))
fT1 == Fact(ST, Integer(1))
fT2 == Fact(ST, Integer(2))
fN  == Fact(SC, FloatNaN)
fTx == Fact(ST, Text("x"))
SZ  == Symbol("Z", "Integer")

\* The rules a knowledge base is built from: a cycle as in test_cycle_detection
\* (B => A, A => B), a rule that always fires, a conjunction and a disjunction
\* of derived facts, a negation, a comparison through a symbol and a rule that
\* concludes a NaN.
RulePool == <<
    Rule(AtomicFact(fB), fA),
    Rule(AtomicFact(fA), fB),
    Rule(And(<<>>), fB),
    Rule(AtomicFact(fB), fC),
    Rule(And(<<AtomicFact(fB), AtomicFact(fC)>>), fA),
    Rule(Or(<<AtomicFact(fC), AtomicFact(fB)>>), fA),
    Rule(Not(AtomicFact(fA)), fB),
    Rule(GreaterThan(BySymbol(ST), Direct(Integer(1))), fA),
    Rule(And(<<>>), fN) >>

\* The facts a knowledge base starts from and the goals that are queried.
FactPool == <<fA, fT1, fT2>>
Goals    == {fA, fB, fC, fT2, fN}

\* What the calls on a new engine are made with.
SymbolNames   == {"A", "T"}
SymbolTypes   == {"Boolean", "Integer"}
VarNames      == {"x", "y"}
VarValues     == {Integer(1), Text("on")}
AssertedFacts == {fA, fT2}
DefinedRules  == {Rule(And(<<>>), fB),
                  Rule(AtomicFact(fB), fA),
                  Rule(GreaterThan(BySymbolName("T"), Direct(Integer(1))), fA)}

\* Bounds of the knowledge bases.
MaxFacts == 2
MaxRules == 3

\* Bounds of the calls on a new engine: assert_fact and define_rule calls.
MaxAsserted == 2
MaxDefined  == 2

\* All sequences over the elements of `pool` of length at most n.
RECURSIVE SeqsUpTo(_, _)
SeqsUpTo(pool, n) ==
    IF n = 0 THEN {<<>>}
    ELSE LET shorter == SeqsUpTo(pool, n - 1)
         IN shorter \cup {Append(q, pool[i]) : q \in shorter, i \in 1..Len(pool)}

\* The symbol table after define_symbol for each of the four symbols.
AllSymbols == [n \in {"A", "B", "C", "T"} |->
                 CASE n = "A" -> SA [] n = "B" -> SB [] n = "C" -> SC [] n = "T" -> ST]

(***************************************************************************)
(* The state machine                                                       *)
(***************************************************************************)

\* The observation of a call: the method, the engine before the call, the
\* arguments (a fact, a name, a type, as the method takes them), whether the
\* call before it was the same call, and what the call returned.
Call(op, pre, goal, name, symbol_type, ret, trace, fact_counts) ==
    [op |-> op, pre |-> pre, goal |-> goal, name |-> name, symbol_type |-> symbol_type,
     again |-> (call.op = op /\ call.goal = goal /\ call.name = name),
     ret |-> ret, trace |-> trace, fact_counts |-> fact_counts]

NoCall == [op |-> "new", pre |-> new, goal |-> NoFact, name |-> "", symbol_type |-> "",
           again |-> FALSE, ret |-> FALSE, trace |-> <<>>, fact_counts |-> <<>>]

\* The state after a `&mut self` call that left `r`.
Commit(r, c) ==
    /\ symbols' = r.self.symbols
    /\ facts' = r.self.facts
    /\ rules' = r.self.rules
    /\ variable_bindings' = r.self.variable_bindings
    /\ status' = IF r.panic THEN "panicked" ELSE IF r.diverged THEN "diverged" ELSE "running"
    /\ panic_msg' = r.msg
    /\ call' = c

\* The state after construction.
Init ==
    /\ symbols = new.symbols
    /\ facts = new.facts
    /\ rules = new.rules
    /\ variable_bindings = new.variable_bindings
    /\ status = "running"
    /\ panic_msg = ""
    /\ call = NoCall

\* A knowledge base after its symbols, facts and rules have been entered.
InitKB ==
    /\ symbols = AllSymbols
    /\ facts \in SeqsUpTo(FactPool, MaxFacts)
    /\ rules \in SeqsUpTo(RulePool, MaxRules)
    /\ variable_bindings = EmptyMap
    /\ status = "running"
    /\ panic_msg = ""
    /\ call = NoCall

\* A pass can append a NaN-valued conclusion again on every call; the calls
\* are made while the fact sequence is no longer than FactCap.
FactCap == MaxFacts + MaxRules

ForwardChaining ==
    /\ status = "running"
    /\ Len(facts) <= FactCap
    /\ Commit(forward_chaining(Self),
              Call("forward_chaining", Self, NoFact, "", "", FALSE, <<>>, <<>>))

\* The state after forward_chaining_with_variables left r.
CommitFixpoint(r) ==
    Commit(r, Call("forward_chaining_with_variables", Self, NoFact, "", "",
                   FALSE, <<>>, r.fact_counts))

ForwardChainingWithVariables ==
    /\ status = "running"
    /\ Len(facts) <= FactCap
    /\ CommitFixpoint(forward_chaining_with_variables(Self))

\* A query that stores the goal it has proven.
CommitQueryStored(goal, r) ==
    Commit([panic |-> r.panic, msg |-> r.msg, diverged |-> r.diverged,
            self |-> IF r.ret THEN [Self EXCEPT !.facts = Append(facts, goal)] ELSE Self],
           Call("specify_goal", Self, goal, "", "", r.ret, r.ctx.trace, <<>>))

\* The state after specify_goal(goal) returned r: the engine is only read.
CommitQuery(goal, r) ==
    Commit([panic |-> r.panic, msg |-> r.msg, diverged |-> r.diverged, self |-> Self],
           Call("specify_goal", Self, goal, "", "", r.ret, r.ctx.trace, <<>>))

SpecifyGoal(goal) ==
    /\ status = "running"
    /\ CommitQuery(goal, specify_goal(Self, goal))

DefineSymbol(name, symbol_type) ==
    /\ status = "running"
    /\ Commit(define_symbol(Self, name, symbol_type),
              Call("define_symbol", Self, NoFact, name, symbol_type, FALSE, <<>>, <<>>))

AssertVariable(var_name, value) ==
    /\ status = "running"
    /\ Commit(assert_variable(Self, var_name, value),
              Call("assert_variable", Self, NoFact, var_name, "", FALSE, <<>>, <<>>))

AssertFact(fact) ==
    /\ status = "running"
    /\ Len(facts) < MaxAsserted
    /\ Commit(assert_fact(Self, fact.symbol, fact.value),
              Call("assert_fact", Self, fact, "", "", FALSE, <<>>, <<>>))

DefineRule(rule) ==
    /\ status = "running"
    /\ Len(rules) < MaxDefined
    /\ Commit(define_rule(Self, rule.premise, rule.conclusion),
              Call("define_rule", Self, rule.conclusion, "", "", FALSE, <<>>, <<>>))

Next ==
    \/ \E name \in SymbolNames, symbol_type \in SymbolTypes : DefineSymbol(name, symbol_type)
    \/ \E var_name \in VarNames, value \in VarValues : AssertVariable(var_name, value)
    \/ \E fact \in AssertedFacts : AssertFact(fact)
    \/ \E rule \in DefinedRules : DefineRule(rule)
    \/ ForwardChaining
    \/ ForwardChainingWithVariables
    \/ \E goal \in Goals : SpecifyGoal(goal)

Spec == Init /\ [][Next]_vars

(***************************************************************************)
(* The evaluation of one premise                                           *)
(***************************************************************************)

\* The leaves of the premises: stored and missing facts, and comparisons
\* through a symbol, through a symbol name and between direct values.
Atoms == {AtomicFact(fA),
          AtomicFact(fB),
          GreaterThan(BySymbol(ST), Direct(Integer(1))),
          LessThanOrEqualTo(Direct(Float(2)), BySymbolName("T"))}

Literals == Atoms \cup {Not(a) : a \in Atoms}

Clauses == Literals \cup {And(<<>>), Or(<<>>)}
                    \cup {And(<<x, y>>) : x \in Literals, y \in Literals}
                    \cup {Or(<<x, y>>) : x \in Literals, y \in Literals}

\* The premises: every tree of a clause, its negation, or a clause joined
\* with a literal, such as And(Or(a, Not(b)), GreaterThan(T, 1)) of
\* handle_nested_logical_expressions.
Premises == Clauses \cup {Not(c) : c \in Clauses}
                    \cup {And(<<c, l>>) : c \in Clauses, l \in Literals}
                    \cup {Or(<<c, l>>) : c \in Clauses, l \in Literals}

\* An engine holding some facts and one rule, whose premise is evaluated.
InitEval ==
    /\ symbols = AllSymbols
    /\ facts \in SeqsUpTo(FactPool, MaxFacts)
    /\ rules \in {<<Rule(e, fC)>> : e \in Premises}
    /\ variable_bindings \in {EmptyMap, MapInsert(EmptyMap, "x", Integer(1))}
    /\ status = "running"
    /\ panic_msg = ""
    /\ call = NoCall

\* The state after match_rule returned m: the engine is only read.
CommitMatch(m) ==
    Commit([panic |-> m.panic, msg |-> m.msg, diverged |-> m.diverged, self |-> Self],
           Call("match_rule", Self, NoFact, "", "", m.some, <<>>, <<>>))

\* match_rule on the premise of the first rule.
MatchRule ==
    /\ status = "running"
    /\ call.op = "new"
    /\ CommitMatch(match_rule(Self, rules[1].premise))

\* The state after is_premise_true returned res: the engine is only read.
CommitPremise(res) ==
    Commit([panic |-> res.panic, msg |-> res.msg, diverged |-> FALSE, self |-> Self],
           Call("is_premise_true", Self, NoFact, "", "", res.val, <<>>, <<>>))

\* is_premise_true on the premise of the first rule.
IsPremiseTrue ==
    /\ status = "running"
    /\ call.op = "new"
    /\ CommitPremise(is_premise_true(Self, rules[1].premise))

NextEval == MatchRule \/ IsPremiseTrue

SpecEval == InitEval /\ [][NextEval]_vars

NextKB ==
    \/ ForwardChaining
    \/ ForwardChainingWithVariables
    \/ \E goal \in Goals : SpecifyGoal(goal)

SpecKB == InitKB /\ [][NextKB]_vars

(***************************************************************************)
(* The evaluation of one comparison                                        *)
(***************************************************************************)

\* The operands of the comparisons: Integer, Text and Boolean values given
\* directly, symbols with and without stored facts, a symbol that is not in
\* the table, a defined and an undefined name.
Operands == {Direct(Integer(1)), Direct(Integer(2)), Direct(Text("x")), Direct(Boolean(TRUE)),
             BySymbol(ST), BySymbol(SA), BySymbol(SZ),
             BySymbolName("T"), BySymbolName("Z")}

Comparisons == {Relational(op, l, r) : op \in RelationalOps, l \in Operands, r \in Operands}

\* The facts stored under the symbols of the operands: T as Integer and as
\* Text, A as Boolean.
CmpFactPool == <<fT1, fT2, fTx, fA>>

\* An engine holding some facts and one rule whose premise is a comparison,
\* as in test_direct_fact_value_panic and test_symbol_not_found_panic.
InitCmp ==
    /\ symbols = AllSymbols
    /\ facts \in SeqsUpTo(CmpFactPool, MaxFacts)
    /\ rules \in {<<Rule(c, fB)>> : c \in Comparisons}
    /\ variable_bindings = EmptyMap
    /\ status = "running"
    /\ panic_msg = ""
    /\ call = NoCall

NextCmp == NextKB \/ NextEval

SpecCmp == InitCmp /\ [][NextCmp]_vars

(***************************************************************************)
(* Forward chaining over rules whose premise can end in a fatal error      *)
(***************************************************************************)
\* T > 1, which panics when no fact is stored under T.
TAboveOne == GreaterThan(BySymbol(ST), Direct(Integer(1)))

\* Rules that reach the comparison in the first pass, and one that reaches
\* it only once B has been derived.
AbortRules == <<
    Rule(And(<<>>), fB),
    Rule(And(<<AtomicFact(fB), TAboveOne>>), fA),
    Rule(TAboveOne, fC),
    Rule(AtomicFact(fB), fC) >>

AbortFacts == <<fA, fT2>>

InitAbort ==
    /\ symbols = AllSymbols
    /\ facts \in SeqsUpTo(AbortFacts, MaxFacts)
    /\ rules \in SeqsUpTo(AbortRules, MaxRules)
    /\ variable_bindings = EmptyMap
    /\ status = "running"
    /\ panic_msg = ""
    /\ call = NoCall

NextAbort == ForwardChaining \/ ForwardChainingWithVariables

SpecAbort == InitAbort /\ [][NextAbort]_vars

(***************************************************************************)
(* match_fact on one query and one known fact                              *)
(***************************************************************************)
\* The symbols of the two facts: a name under two types, and another name.
MatchSymbols == {SA, Symbol("A", "Integer"), ST}

\* The values of the two facts: two payloads of every variant, and NaN.
MatchValues == {Integer(1), Integer(2), Float(1), Float(2), FloatNaN,
                Boolean(TRUE), Boolean(FALSE), Text("x"), Text("on")}

MatchFacts == {Fact(s, v) : s \in MatchSymbols, v \in MatchValues}

\* An engine holding one known fact and one rule whose premise is the query,
\* so that the AtomicFact arm calls match_fact(query, known) once.
InitMatch ==
    /\ symbols = AllSymbols
    /\ facts \in {<<known>> : known \in MatchFacts}
    /\ rules \in {<<Rule(AtomicFact(query), fC)>> : query \in MatchFacts}
    /\ variable_bindings = EmptyMap
    /\ status = "running"
    /\ panic_msg = ""
    /\ call = NoCall

SpecMatch == InitMatch /\ [][NextEval]_vars

(***************************************************************************)
(* Properties of the inference calls                                       *)
(***************************************************************************)

\* The call observed last has returned: it neither panicked nor ran for ever.
Returned(op) == call.op = op /\ status = "running"

\* A result that is a return.
Returns(r) == ~r.panic /\ ~r.diverged

\* The premise evaluates to true, by the boolean evaluator.
PremiseHolds(res) == ~res.panic /\ res.val

\* No two structurally equal facts in the sequence.
NoDuplicates(vec) ==
    \A i \in 1..Len(vec) : \A j \in 1..Len(vec) : i < j => ~FactEq(vec[i], vec[j])

RECURSIVE Positive(_)
\* A premise built from AtomicFact, And and Or only.
Positive(e) ==
    \/ e.op = "AtomicFact"
    \/ /\ e.op \in {"And", "Or"}
       /\ \A i \in 1..Len(e.args) : Positive(e.args[i])

PositiveRules(rs) == \A i \in 1..Len(rs) : Positive(rs[i].premise)

\* A premise that is an AtomicFact or a non-empty And or Or of AtomicFacts.
Simple(e) ==
    \/ e.op = "AtomicFact"
    \/ /\ e.op \in {"And", "Or"}
       /\ Len(e.args) > 0
       /\ \A i \in 1..Len(e.args) : e.args[i].op = "AtomicFact"

SimpleRules(rs) == \A i \in 1..Len(rs) : Simple(rs[i].premise)

\* C1: when forward_chaining_with_variables has returned, every rule whose
\* premise evaluates to true against the final facts has its conclusion
\* among the facts.
C1_FixpointClosed ==
    Returned("forward_chaining_with_variables") =>
        \A i \in 1..Len(rules) :
            PremiseHolds(is_premise_true(Self, rules[i].premise))
                => VecContains(facts, rules[i].conclusion)

\* A fixpoint call of three iterations that stored a conclusion the engine
\* did not hold before.
C1_Witness ==
    /\ Returned("forward_chaining_with_variables")
    /\ Len(call.fact_counts) >= 4
    /\ \E i \in 1..Len(rules) :
          /\ PremiseHolds(is_premise_true(Self, rules[i].premise))
          /\ ~VecContains(call.pre.facts, rules[i].conclusion)
          /\ VecContains(facts, rules[i].conclusion)

\* C2: a forward_chaining_with_variables call made right after one that
\* returned leaves the fact sequence as it found it.
C2_FixpointIdempotent ==
    (Returned("forward_chaining_with_variables") /\ call.again)
        => facts = call.pre.facts

\* The second of two fixpoint calls in a row, on an engine that holds a
\* derived fact.
C2_Witness ==
    /\ Returned("forward_chaining_with_variables")
    /\ call.again
    /\ VecContains(facts, fB)
    /\ facts = call.pre.facts

\* C3, on the calls that start without duplicates: after forward_chaining,
\* forward_chaining_with_variables or specify_goal returned, the fact
\* sequence holds no two structurally equal facts.
C3_NoDuplicateFacts ==
    (/\ status = "running"
     /\ call.op \in {"forward_chaining", "forward_chaining_with_variables", "specify_goal"}
     /\ NoDuplicates(call.pre.facts))
        => NoDuplicates(facts)

\* In every event of the trace the goals of the active calls are in `visited`.
ActiveVisited(trace) ==
    \A k \in 1..Len(trace) :
        \A a \in 1..Len(trace[k].ancestors) :
            VecContains(trace[k].visited, trace[k].ancestors[a])

\* In no event of the trace is the goal of a call that searches its rules
\* the goal of a call above it.
NoGoalBelowItself(trace) ==
    \A k \in 1..Len(trace) :
        \A a \in 1..Len(trace[k].ancestors) :
            \A b \in 1..Len(trace[k].ancestors) :
                a < b => ~FactEq(trace[k].ancestors[a], trace[k].ancestors[b])

\* C4: specify_goal terminates for every goal, the goal of every active
\* search_for_rules call is in `visited`, and no goal is searched below itself.
C4_QueryTerminates ==
    call.op = "specify_goal" =>
        /\ status # "diverged"
        /\ ActiveVisited(call.trace)
        /\ NoGoalBelowItself(call.trace)

\* A query that met its goal again below itself and returned.
C4_Witness ==
    /\ Returned("specify_goal")
    /\ \E k \in 1..Len(call.trace) :
          /\ call.trace[k].ev = "enter"
          /\ Len(call.trace[k].ancestors) >= 2
          /\ VecContains(call.trace[k].ancestors, call.trace[k].goal)

\* Len(self.facts) grows in every iteration but the last, which leaves it.
GrowsThenStops(fact_counts) ==
    /\ Len(fact_counts) >= 2
    /\ \A k \in 1..(Len(fact_counts) - 2) : fact_counts[k] < fact_counts[k + 1]
    /\ fact_counts[Len(fact_counts)] = fact_counts[Len(fact_counts) - 1]

\* C5: forward_chaining_with_variables terminates for every rule set; every
\* iteration but the last appends a fact and the last appends none.
C5_FixpointTerminates ==
    call.op = "forward_chaining_with_variables" =>
        /\ status # "diverged"
        /\ status = "running" => GrowsThenStops(call.fact_counts)

\* C6: with premises of AtomicFact, And and Or only, specify_goal returns
\* true for every goal that is stored or that forward_chaining_with_variables
\* would store.
C6_QueryComplete ==
    (/\ call.op = "specify_goal"
     /\ PositiveRules(call.pre.rules)
     /\ Returns(forward_chaining_with_variables(call.pre))
     /\ VecContains(forward_chaining_with_variables(call.pre).self.facts, call.goal))
        => (status = "running" /\ call.ret)

\* C7: with premises of AtomicFact, And and Or only, specify_goal returns
\* true only for a goal that is stored, symbol and value, or that
\* forward_chaining_with_variables would store.
C7_QuerySound ==
    (/\ Returned("specify_goal")
     /\ call.ret
     /\ PositiveRules(call.pre.rules)
     /\ Returns(forward_chaining_with_variables(call.pre)))
        => VecContains(forward_chaining_with_variables(call.pre).self.facts, call.goal)

\* C8: with no fact stored and every premise an AtomicFact or a non-empty
\* And or Or of AtomicFacts, specify_goal returns false for every goal.
C8_NothingFromNothing ==
    (/\ call.op = "specify_goal"
     /\ Len(call.pre.facts) = 0
     /\ SimpleRules(call.pre.rules))
        => (status = "running" /\ ~call.ret)

\* A query over the cycle B => A, A => B with no fact stored, which found
\* the cycle and returned false.
C8_Witness ==
    /\ Returned("specify_goal")
    /\ Len(call.pre.facts) = 0
    /\ SimpleRules(call.pre.rules)
    /\ ~call.ret
    /\ \E k \in 1..Len(call.trace) :
          /\ call.trace[k].ev = "enter"
          /\ VecContains(call.trace[k].visited, call.trace[k].goal)
    /\ \E i \in 1..Len(rules) : rules[i].premise.op = "And"

\* C9: define_symbol with a name that is already defined panics with
\* "Symbol already defined" whatever the type and leaves the table as it
\* was, so the table holds one symbol per name, under its own name.
C9_DuplicateSymbolPanics ==
    /\ (call.op = "define_symbol" /\ call.name \in DOMAIN call.pre.symbols) =>
          /\ status = "panicked"
          /\ panic_msg = MsgSymbolAlreadyDefined
          /\ symbols = call.pre.symbols
    /\ \A n \in DOMAIN symbols : symbols[n].name = n

\* A define_symbol that panicked on a defined name given with another type.
C9_Witness ==
    /\ call.op = "define_symbol"
    /\ status = "panicked"
    /\ call.name \in DOMAIN symbols
    /\ symbols[call.name].symbol_type # call.symbol_type

\* The two operands of a comparison as numbers.
Number(x) == x.num

RECURSIVE NoFatalOperands(_, _)
\* No comparison in the tree has an operand whose resolution panics.
NoFatalOperands(self, e) ==
    CASE e.op \in {"And", "Or", "Not"} ->
            \A i \in 1..Len(e.args) : NoFatalOperands(self, e.args[i])
      [] e.op = "AtomicFact" -> TRUE
      [] e.op \in RelationalOps ->
            /\ ~resolve_comparable_value(self, e.left).panic
            /\ ~resolve_comparable_value(self, e.right).panic

\* The operator of a comparison on two numbers.
Holds2(op, a, b) ==
    CASE op = "GreaterThan"          -> a > b
      [] op = "LessThan"             -> a < b
      [] op = "EqualTo"              -> a = b
      [] op = "NotEqualTo"           -> a # b
      [] op = "GreaterThanOrEqualTo" -> a >= b
      [] op = "LessThanOrEqualTo"    -> a <= b

RECURSIVE Truth(_, _)
\* The classical truth value of a premise: an AtomicFact is true iff an equal
\* fact is stored, a comparison iff its operator holds on the resolved
\* numbers, And is conjunction, Or disjunction, Not negation.
Truth(self, e) ==
    CASE e.op = "And" -> \A i \in 1..Len(e.args) : Truth(self, e.args[i])
      [] e.op = "Or" -> \E i \in 1..Len(e.args) : Truth(self, e.args[i])
      [] e.op = "Not" -> ~Truth(self, e.args[1])
      [] e.op = "AtomicFact" -> \E i \in 1..Len(self.facts) : self.facts[i] = e.fact
      [] e.op \in RelationalOps ->
            Holds2(e.op, Number(resolve_comparable_value(self, e.left)),
                         Number(resolve_comparable_value(self, e.right)))

\* C10: without backward chaining evaluate_logical_expression returns Some
\* exactly when the premise is classically true, if no operand is fatal.
C10_EvaluatorClassical ==
    (call.op = "match_rule" /\ NoFatalOperands(call.pre, call.pre.rules[1].premise))
        => /\ status = "running"
           /\ call.ret = Truth(call.pre, call.pre.rules[1].premise)

\* A true premise nested as in handle_nested_logical_expressions:
\* And(Or(.., Not(..)), comparison), the Or true through its Not.
C10_Witness ==
    /\ Returned("match_rule")
    /\ call.ret
    /\ rules[1].premise.op = "And"
    /\ Len(rules[1].premise.args) = 2
    /\ rules[1].premise.args[1].op = "Or"
    /\ Len(rules[1].premise.args[1].args) = 2
    /\ rules[1].premise.args[1].args[2].op = "Not"
    /\ ~Truth(Self, rules[1].premise.args[1].args[1])
    /\ rules[1].premise.args[2].op \in RelationalOps

\* The truth value the evaluator of the observed call gives a premise: Some
\* for match_rule, true for is_premise_true.
EvalBy(op, self, e) ==
    IF op = "match_rule" THEN match_rule(self, e).some
    ELSE is_premise_true(self, e).val

\* The observed call evaluated the premise of the first rule.
Evaluated == call.op \in {"match_rule", "is_premise_true"}

\* C11: for sub-expressions a and b without fatal operands, Not(And(a, b))
\* evaluates to true exactly when Or(Not(a), Not(b)) does, in is_premise_true
\* and in evaluate_logical_expression.
C11_DeMorgan ==
    (/\ Evaluated
     /\ call.pre.rules[1].premise.op = "Not"
     /\ call.pre.rules[1].premise.args[1].op = "And"
     /\ Len(call.pre.rules[1].premise.args[1].args) = 2
     /\ NoFatalOperands(call.pre, call.pre.rules[1].premise))
        => /\ status = "running"
           /\ call.ret = EvalBy(call.op, call.pre,
                                Or(<<Not(call.pre.rules[1].premise.args[1].args[1]),
                                     Not(call.pre.rules[1].premise.args[1].args[2])>>))

\* Not(And(a, b)) found true by is_premise_true with a true and b false, b a
\* comparison.
C11_Witness ==
    /\ Returned("is_premise_true")
    /\ call.ret
    /\ rules[1].premise.op = "Not"
    /\ rules[1].premise.args[1].op = "And"
    /\ Len(rules[1].premise.args[1].args) = 2
    /\ rules[1].premise.args[1].args[2].op \in RelationalOps
    /\ Truth(Self, rules[1].premise.args[1].args[1])
    /\ ~Truth(Self, rules[1].premise.args[1].args[2])

\* The symbol a BySymbol operand names, or a BySymbolName operand whose name
\* is in the table.
Refers(self, v) ==
    \/ v.cv = "Symbol"
    \/ v.cv = "SymbolName" /\ v.name \in DOMAIN self.symbols

SymbolOf(self, v) == IF v.cv = "Symbol" THEN v.symbol ELSE self.symbols[v.name]

\* The operand is an Integer: given directly, or the value its symbol resolves to.
IntegerOperand(self, v) ==
    \/ v.cv = "Direct" /\ v.value.variant = "Integer"
    \/ /\ Refers(self, v)
       /\ get_fact_value(self, Fact(SymbolOf(self, v), Integer(0))) # 0
       /\ self.facts[get_fact_value(self, Fact(SymbolOf(self, v), Integer(0)))].value.variant
              = "Integer"

IntegerOf(self, v) ==
    IF v.cv = "Direct" THEN v.value.num
    ELSE self.facts[get_fact_value(self, Fact(SymbolOf(self, v), Integer(0)))].value.num

\* C12: for Integer operands a and b, given directly or through a symbol,
\* exactly one of GreaterThan(a, b) and LessThan(a, b) evaluates to true when
\* a and b differ, and neither when they are equal.
C12_ComparisonAntisymmetry ==
    (/\ Evaluated
     /\ call.pre.rules[1].premise.op = "GreaterThan"
     /\ IntegerOperand(call.pre, call.pre.rules[1].premise.left)
     /\ IntegerOperand(call.pre, call.pre.rules[1].premise.right))
        => /\ status = "running"
           /\ IF IntegerOf(call.pre, call.pre.rules[1].premise.left)
                    # IntegerOf(call.pre, call.pre.rules[1].premise.right)
              THEN call.ret # EvalBy(call.op, call.pre,
                                     LessThan(call.pre.rules[1].premise.left,
                                              call.pre.rules[1].premise.right))
              ELSE /\ ~call.ret
                   /\ ~EvalBy(call.op, call.pre,
                              LessThan(call.pre.rules[1].premise.left,
                                       call.pre.rules[1].premise.right))

\* GreaterThan found false and LessThan true for a direct 1 against a symbol
\* whose first fact is Text and whose second fact is the Integer 2.
C12_Witness ==
    /\ Returned("match_rule")
    /\ rules[1].premise.op = "GreaterThan"
    /\ rules[1].premise.left = Direct(Integer(1))
    /\ rules[1].premise.right = BySymbol(ST)
    /\ facts = <<fTx, fT2>>
    /\ ~call.ret
    /\ match_rule(Self, LessThan(Direct(Integer(1)), BySymbol(ST))).some

\* The observed call evaluated the comparison that is the premise of the
\* only rule: a forward-chaining call always does, a query does when it
\* reaches the rule.
InferenceCompared ==
    /\ Len(call.pre.rules) = 1
    /\ call.pre.rules[1].premise.op \in RelationalOps
    /\ \/ call.op \in {"forward_chaining", "forward_chaining_with_variables"}
       \/ /\ call.op = "specify_goal"
          /\ FactEq(call.goal, call.pre.rules[1].conclusion)
          /\ ~DirectHit(call.pre, call.goal)

\* The operand is a Text or Boolean value given directly, or names a symbol
\* whose fact, the first stored under the symbol, holds a Text or a Boolean.
NotNumeric(self, v) ==
    \/ v.cv = "Direct" /\ v.value.variant \in {"Text", "Boolean"}
    \/ /\ Refers(self, v)
       /\ get_fact_from_symbol(self, SymbolOf(self, v)) # 0
       /\ self.facts[get_fact_from_symbol(self, SymbolOf(self, v))].value.variant
              \in {"Text", "Boolean"}

\* C13: an inference call that evaluates a comparison with an operand that is
\* a direct Text or Boolean, or a symbol whose fact holds a Text or Boolean,
\* ends in a fatal error.
C13_NonNumericOperandFatal ==
    (/\ InferenceCompared
     /\ \/ NotNumeric(call.pre, call.pre.rules[1].premise.left)
        \/ NotNumeric(call.pre, call.pre.rules[1].premise.right))
        => status = "panicked"

\* The operand names a symbol without a stored fact, or a name that is not in
\* the symbol table or whose symbol has no stored fact.
Missing(self, v) ==
    \/ /\ v.cv = "Symbol"
       /\ \A i \in 1..Len(self.facts) : self.facts[i].symbol # v.symbol
    \/ /\ v.cv = "SymbolName"
       /\ \/ v.name \notin DOMAIN self.symbols
          \/ \A i \in 1..Len(self.facts) : self.facts[i].symbol # self.symbols[v.name]

\* The operand resolves to a number.
Numeric(self, v) ==
    \/ v.cv = "Direct" /\ v.value.variant \in {"Integer", "Float"}
    \/ /\ Refers(self, v)
       /\ \E i \in 1..Len(self.facts) :
             /\ self.facts[i].symbol = SymbolOf(self, v)
             /\ self.facts[i].value.variant \in {"Integer", "Float"}

\* The observed call evaluated the comparison that is the premise of the only rule.
ComparisonEvaluated ==
    \/ InferenceCompared
    \/ Evaluated /\ call.pre.rules[1].premise.op \in RelationalOps

\* C14 as stated: evaluating a comparison with an operand BySymbol(s) where no
\* fact has symbol s, or BySymbolName(n) where n is undefined or has no fact,
\* ends in the fatal error "Symbol not found in knowledge base".
C14_SymbolNotFoundAlways ==
    (/\ ComparisonEvaluated
     /\ \/ Missing(call.pre, call.pre.rules[1].premise.left)
        \/ Missing(call.pre, call.pre.rules[1].premise.right))
        => (status = "panicked" /\ panic_msg = MsgSymbolNotFound)

\* C14, amended: such a comparison ends in a fatal error, and the error is
\* "Symbol not found in knowledge base" when the operand without a fact is
\* the left one or the left one resolves to a number; a left operand that is
\* itself not numerically resolvable fails first, with its own message.
C14_SymbolNotFound ==
    (/\ ComparisonEvaluated
     /\ \/ Missing(call.pre, call.pre.rules[1].premise.left)
        \/ Missing(call.pre, call.pre.rules[1].premise.right))
        => /\ status = "panicked"
           /\ (\/ Missing(call.pre, call.pre.rules[1].premise.left)
               \/ Numeric(call.pre, call.pre.rules[1].premise.left))
                  => panic_msg = MsgSymbolNotFound

\* forward_chaining panicked with "Symbol not found in knowledge base" on a
\* right operand BySymbol(T): T is in the symbol table and has no fact.
C14_Witness ==
    /\ call.op = "forward_chaining"
    /\ status = "panicked"
    /\ panic_msg = MsgSymbolNotFound
    /\ rules[1].premise.right = BySymbol(ST)
    /\ Numeric(Self, rules[1].premise.left)
    /\ "T" \in DOMAIN symbols
    /\ Missing(Self, BySymbol(ST))

\* The rules whose premise is true in the engine.
Fired(self) ==
    {i \in 1..Len(self.rules) : PremiseHolds(is_premise_true(self, self.rules[i].premise))}

\* How often the fact occurs in the sequence.
Occurrences(vec, f) == Cardinality({k \in 1..Len(vec) : FactEq(vec[k], f)})

\* C15: when two rules with the same conclusion have a true premise and the
\* conclusion is not stored, one forward_chaining call appends the conclusion
\* exactly once.
C15_SharedConclusionOnce ==
    Returned("forward_chaining") =>
        \A i \in Fired(call.pre) : \A j \in Fired(call.pre) :
            (/\ i < j
             /\ FactEq(call.pre.rules[i].conclusion, call.pre.rules[j].conclusion)
             /\ ~VecContains(call.pre.facts, call.pre.rules[i].conclusion))
                => Occurrences(facts, call.pre.rules[i].conclusion) = 1

\* The set of the facts in the sequence.
FactSet(vec) == {vec[k] : k \in 1..Len(vec)}

\* C16: after one forward_chaining call the set of facts is the set before
\* the call plus the conclusions of exactly the rules whose premise was true
\* before the call.
C16_SinglePass ==
    Returned("forward_chaining") =>
        FactSet(facts) = FactSet(call.pre.facts)
                            \cup {call.pre.rules[i].conclusion : i \in Fired(call.pre)}

\* With only A stored and the rules A => B and B => C, one call stored B and
\* not C.
C16_Witness ==
    /\ Returned("forward_chaining")
    /\ call.pre.facts = <<fA>>
    /\ \E i \in 1..Len(rules) : rules[i] = Rule(AtomicFact(fA), fB)
    /\ \E i \in 1..Len(rules) : rules[i] = Rule(AtomicFact(fB), fC)
    /\ VecContains(facts, fB)
    /\ ~VecContains(facts, fC)

\* Every rule whose premise is true has its conclusion among the facts.
Saturated(self) ==
    \A i \in Fired(self) : VecContains(self.facts, self.rules[i].conclusion)

\* C17: if every rule whose premise is true already has its conclusion among
\* the facts, forward_chaining and forward_chaining_with_variables leave the
\* fact sequence as it is, in length, content and order.
C17_NoRedundantFiring ==
    (/\ call.op \in {"forward_chaining", "forward_chaining_with_variables"}
     /\ Saturated(call.pre))
        => (facts = call.pre.facts /\ status # "diverged")

\* As in no_new_facts_generated: a rule with a true premise whose conclusion
\* is stored, and a call that returned with the two facts it found.
C17_Witness ==
    /\ Returned("forward_chaining")
    /\ Saturated(call.pre)
    /\ Fired(call.pre) # {}
    /\ Len(call.pre.facts) = 2
    /\ facts = call.pre.facts

\* C18: assert_fact appends exactly one fact at the end of the fact
\* sequence, also when an equal fact is stored and when the symbol is not in
\* the symbol table, and changes nothing else.
C18_AssertFactAppends ==
    call.op = "assert_fact" =>
        /\ status = "running"
        /\ facts = Append(call.pre.facts, call.goal)
        /\ rules = call.pre.rules
        /\ symbols = call.pre.symbols
        /\ variable_bindings = call.pre.variable_bindings

\* An assert_fact of a fact that was already stored, its symbol not in the
\* symbol table.
C18_Witness ==
    /\ call.op = "assert_fact"
    /\ VecContains(call.pre.facts, call.goal)
    /\ call.goal.symbol.name \notin DOMAIN symbols
    /\ Len(facts) = Len(call.pre.facts) + 1

\* The step is an assert_variable call for the name.
Asserts(n) == \E v \in VarValues : AssertVariable(n, v)

\* The value the step's assert_variable call for the name is given.
Asserted(n) == CHOOSE v \in VarValues : AssertVariable(n, v)

\* C19: determine_variable_value returns None for a name on a new engine;
\* every assert_variable(n, v) makes it return v for n and leaves it as it
\* was for the other names, and changes no fact, rule or symbol; no other
\* call changes what it returns.  So it returns the value of the most recent
\* assert_variable(n, v), and None if there was none.
C19_LastBindingWins ==
    /\ \A n \in VarNames : determine_variable_value(Self, n) = <<>>
    /\ [][/\ \A n \in VarNames :
                determine_variable_value(Self', n) =
                    IF Asserts(n) THEN <<Asserted(n)>>
                    ELSE determine_variable_value(Self, n)
          /\ (\E n \in VarNames : Asserts(n))
                => (facts' = facts /\ rules' = rules /\ symbols' = symbols)]_vars

\* An assert_variable that replaced the value of x while y stayed bound to
\* its value.
C19_Witness ==
    /\ call.op = "assert_variable"
    /\ call.name = "x"
    /\ "x" \in DOMAIN call.pre.variable_bindings
    /\ variable_bindings["x"] # call.pre.variable_bindings["x"]
    /\ "y" \in DOMAIN call.pre.variable_bindings
    /\ variable_bindings["y"] = call.pre.variable_bindings["y"]

\* What the evaluator that the observed call did not use makes of a premise:
\* whether it ends in a fatal error, and its truth value (true for
\* is_premise_true, Some for match_rule).
OtherPanics(op, self, e) ==
    IF op = "match_rule" THEN is_premise_true(self, e).panic
    ELSE match_rule(self, e).panic

OtherHolds(op, self, e) ==
    IF op = "match_rule" THEN is_premise_true(self, e).val
    ELSE match_rule(self, e).some

\* C20: is_premise_true(expr) is true exactly when
\* evaluate_logical_expression(expr, current bindings, forward mode) returns
\* Some, and one ends in a fatal error exactly when the other does.
C20_EvaluatorsAgree ==
    Evaluated =>
        /\ (status = "panicked") <=> OtherPanics(call.op, call.pre, call.pre.rules[1].premise)
        /\ status = "running" =>
              call.ret = OtherHolds(call.op, call.pre, call.pre.rules[1].premise)

\* match_rule ended in a fatal error on Or(c, l): is_premise_true finds the
\* clause c false and ends in a fatal error on the comparison l.
C20_Witness ==
    /\ call.op = "match_rule"
    /\ status = "panicked"
    /\ call.pre.rules[1].premise.op = "Or"
    /\ Len(call.pre.rules[1].premise.args) = 2
    /\ call.pre.rules[1].premise.args[1].op \in {"And", "Or"}
    /\ Len(call.pre.rules[1].premise.args[1].args) = 2
    /\ is_premise_true(call.pre, call.pre.rules[1].premise.args[1]) = BoolOk(FALSE)
    /\ call.pre.rules[1].premise.args[2].op \in RelationalOps
    /\ is_premise_true(call.pre, call.pre.rules[1].premise.args[2]).panic

\* In every event of the trace, `visited` holds the goals of the calls above
\* the one entered or returning, in call order, and nothing else.
VisitedIsPath(trace) ==
    \A k \in 1..Len(trace) : trace[k].visited = trace[k].ancestors

\* C21: whenever search_for_rules is entered or returns during a query,
\* `visited` is exactly the goals of the active ancestor calls.
C21_VisitedIsPath ==
    call.op = "specify_goal" => VisitedIsPath(call.trace)

\* Some stored fact's value equals the goal's value.
ValueStored(self, goal) ==
    \E i \in 1..Len(self.facts) : self.facts[i].value = goal.value /\ ~goal.value.nan

\* C22: every search_for_rules call entered with a goal not in `visited`
\* while some stored fact has a value equal to the goal's returns true at
\* once, whatever the symbol of that fact and whatever the rules.
C22_ValueOnlyHit ==
    call.op = "specify_goal" =>
        /\ ValueStored(call.pre, call.goal) => (status = "running" /\ call.ret)
        /\ \A k \in 1..Len(call.trace) :
              (/\ call.trace[k].ev = "enter"
               /\ ~VecContains(call.trace[k].visited, call.trace[k].goal)
               /\ ValueStored(call.pre, call.trace[k].goal))
                  => /\ k < Len(call.trace)
                     /\ call.trace[k + 1].ev = "return"
                     /\ call.trace[k + 1].goal = call.trace[k].goal
                     /\ call.trace[k + 1].ret

\* A query that returned true for a goal whose symbol no stored fact has and
\* which no rule concludes, another symbol's fact holding the goal's value.
C22_Witness ==
    /\ Returned("specify_goal")
    /\ call.ret
    /\ Len(facts) = 1
    /\ facts[1].symbol # call.goal.symbol
    /\ facts[1].value = call.goal.value
    /\ applicable_rules(Self, call.goal) = <<>>

\* The operand names a symbol whose first stored fact holds a Text or a
\* Boolean while a later fact of the symbol holds an Integer or a Float.
FirstFactNotNumeric(self, v) ==
    /\ Refers(self, v)
    /\ get_fact_from_symbol(self, SymbolOf(self, v)) # 0
    /\ self.facts[get_fact_from_symbol(self, SymbolOf(self, v))].value.variant
           \in {"Text", "Boolean"}
    /\ \E i \in 1..Len(self.facts) :
          /\ i > get_fact_from_symbol(self, SymbolOf(self, v))
          /\ self.facts[i].symbol = SymbolOf(self, v)
          /\ self.facts[i].value.variant \in {"Integer", "Float"}

\* C23: a BySymbol or BySymbolName operand resolves to the first fact stored
\* under its symbol, so a comparison on an operand whose first fact holds a
\* Text or Boolean ends in a fatal error even when a later fact of the symbol
\* holds a number.
C23_FirstFactResolves ==
    (/\ Evaluated
     /\ call.pre.rules[1].premise.op \in RelationalOps
     /\ \/ FirstFactNotNumeric(call.pre, call.pre.rules[1].premise.left)
        \/ FirstFactNotNumeric(call.pre, call.pre.rules[1].premise.right))
        => status = "panicked"

\* Whether the evaluator of the observed call ends in a fatal error on a premise.
PanicsBy(op, self, e) ==
    IF op = "match_rule" THEN match_rule(self, e).panic
    ELSE is_premise_true(self, e).panic

\* The evaluator of the observed call finds the premise true, or false,
\* without a fatal error.
TrueBy(op, self, e) == ~PanicsBy(op, self, e) /\ EvalBy(op, self, e)
FalseBy(op, self, e) == ~PanicsBy(op, self, e) /\ ~EvalBy(op, self, e)

\* C24: in both evaluators an And whose first child is false and whose second
\* child would end in a fatal error evaluates to false, and an Or whose first
\* child is true and whose second child would end in a fatal error evaluates
\* to true, without a fatal error.
C24_ShortCircuit ==
    (/\ Evaluated
     /\ call.pre.rules[1].premise.op \in {"And", "Or"}
     /\ Len(call.pre.rules[1].premise.args) = 2
     /\ PanicsBy(call.op, call.pre, call.pre.rules[1].premise.args[2]))
        => /\ (/\ call.pre.rules[1].premise.op = "And"
               /\ FalseBy(call.op, call.pre, call.pre.rules[1].premise.args[1]))
                  => (status = "running" /\ ~call.ret)
           /\ (/\ call.pre.rules[1].premise.op = "Or"
               /\ TrueBy(call.op, call.pre, call.pre.rules[1].premise.args[1]))
                  => (status = "running" /\ call.ret)

\* is_premise_true returned false for an And of a false clause and a
\* comparison that would end in a fatal error.
C24_Witness ==
    /\ Returned("is_premise_true")
    /\ ~call.ret
    /\ rules[1].premise.op = "And"
    /\ Len(rules[1].premise.args) = 2
    /\ rules[1].premise.args[1].op = "Or"
    /\ rules[1].premise.args[2].op \in RelationalOps
    /\ FalseBy("is_premise_true", Self, rules[1].premise.args[1])
    /\ PanicsBy("is_premise_true", Self, rules[1].premise.args[2])

\* No fact from index n + 1 on is structurally equal to a fact before it.
AppendedFresh(vec, n) ==
    \A j \in (n + 1)..Len(vec) : \A i \in 1..(j - 1) : ~FactEq(vec[i], vec[j])

\* C25: no fact that forward_chaining_with_variables appends is structurally
\* equal to a fact before it in the sequence, be that one stored before the
\* call or appended earlier by it; so a fact sequence without duplicates
\* before the call is without duplicates after it.
C25_FixpointAppendsFresh ==
    call.op = "forward_chaining_with_variables" =>
        /\ AppendedFresh(facts, Len(call.pre.facts))
        /\ NoDuplicates(call.pre.facts) => NoDuplicates(facts)

\* A fixpoint call that returned with one fact appended for two rules with
\* the same conclusion, both premises true.
C25_Witness ==
    /\ Returned("forward_chaining_with_variables")
    /\ Len(rules) >= 2
    /\ FactEq(rules[1].conclusion, rules[2].conclusion)
    /\ PremiseHolds(is_premise_true(call.pre, rules[1].premise))
    /\ PremiseHolds(is_premise_true(call.pre, rules[2].premise))
    /\ ~VecContains(call.pre.facts, rules[1].conclusion)
    /\ Occurrences(facts, rules[1].conclusion) = 1

\* The sequence is the beginning of the other.
IsPrefix(vec, other) ==
    /\ Len(vec) <= Len(other)
    /\ SubSeq(other, 1, Len(vec)) = vec

\* C26: every operation leaves the fact sequence it found as a prefix of the
\* fact sequence it leaves: no fact is removed or moved.
C26_FactsOnlyGrow == [][IsPrefix(facts, facts')]_vars

\* A forward_chaining call that appended a fact behind the stored ones.
C26_Witness ==
    /\ Returned("forward_chaining")
    /\ Len(call.pre.facts) >= 1
    /\ Len(facts) > Len(call.pre.facts)
    /\ IsPrefix(call.pre.facts, facts)

\* The step is one of the inference calls.
Infers == \/ ForwardChaining
          \/ ForwardChainingWithVariables
          \/ \E goal \in Goals : SpecifyGoal(goal)

\* C27: define_rule appends its rule at the end of the rule sequence, which
\* no operation shortens or reorders; a symbol in the table stays there with
\* its name and type; an inference call leaves rules and symbols as they are.
C27_RulesAndSymbolsOnlyGrow ==
    [][/\ IsPrefix(rules, rules')
       /\ \A rule \in DefinedRules : DefineRule(rule) => rules' = Append(rules, rule)
       /\ \A name \in DOMAIN symbols :
             /\ name \in DOMAIN symbols'
             /\ symbols'[name] = symbols[name]
             /\ symbols'[name].name = name
       /\ Infers => (rules' = rules /\ symbols' = symbols)]_vars

\* A define_rule that appended a second rule behind the first, a symbol defined.
C27_Witness ==
    /\ Returned("define_rule")
    /\ Len(call.pre.rules) = 1
    /\ Len(rules) = 2
    /\ rules[1] = call.pre.rules[1]
    /\ rules[1] # rules[2]
    /\ "A" \in DOMAIN symbols

\* Equal payloads of one variant; as f64 values for Float, where NaN is equal
\* to nothing.
SamePayload(a, b) ==
    \/ a.variant = "Integer" /\ a.num = b.num
    \/ a.variant = "Float" /\ ~a.nan /\ ~b.nan /\ a.num = b.num
    \/ a.variant = "Boolean" /\ a.bool = b.bool
    \/ a.variant = "Text" /\ a.text = b.text

\* C28: match_fact(query, known) is true exactly when the symbols are equal
\* in name and in type and the values have the same variant and equal
\* payloads; observed through match_rule on AtomicFact(query) with `known`
\* the only stored fact.
C28_MatchFact ==
    (/\ call.op = "match_rule"
     /\ call.pre.rules[1].premise.op = "AtomicFact"
     /\ Len(call.pre.facts) = 1)
        => /\ status = "running"
           /\ call.ret <=>
                 /\ call.pre.rules[1].premise.fact.symbol.name = call.pre.facts[1].symbol.name
                 /\ call.pre.rules[1].premise.fact.symbol.symbol_type
                        = call.pre.facts[1].symbol.symbol_type
                 /\ call.pre.rules[1].premise.fact.value.variant
                        = call.pre.facts[1].value.variant
                 /\ SamePayload(call.pre.rules[1].premise.fact.value, call.pre.facts[1].value)

\* A query that did not match a known fact of the same name and value under
\* another type.
C28_Witness ==
    /\ Returned("match_rule")
    /\ ~call.ret
    /\ rules[1].premise.op = "AtomicFact"
    /\ Len(facts) = 1
    /\ rules[1].premise.fact.symbol.name = facts[1].symbol.name
    /\ rules[1].premise.fact.symbol.symbol_type # facts[1].symbol.symbol_type
    /\ rules[1].premise.fact.value = facts[1].value
    /\ facts[1].value.variant = "Integer"

\* Some rule's conclusion is the goal, symbol and value.
Concluded(self, goal) ==
    \E i \in 1..Len(self.rules) :
        /\ self.rules[i].conclusion.symbol = goal.symbol
        /\ self.rules[i].conclusion.value = goal.value
        /\ ~goal.value.nan

\* C29: a query whose goal's value no stored fact has and whose goal no
\* rule concludes, symbol and value, returns false, whatever rules conclude
\* the goal's symbol with another value.
C29_OnlyEqualConclusions ==
    (/\ call.op = "specify_goal"
     /\ ~ValueStored(call.pre, call.goal)
     /\ ~Concluded(call.pre, call.goal))
        => (status = "running" /\ ~call.ret)

\* A query that returned false while a rule with a true premise concludes
\* the goal's symbol with another value.
C29_Witness ==
    /\ Returned("specify_goal")
    /\ ~call.ret
    /\ ~ValueStored(Self, call.goal)
    /\ \E i \in 1..Len(rules) :
          /\ rules[i].conclusion.symbol = call.goal.symbol
          /\ rules[i].conclusion.value # call.goal.value
          /\ PremiseHolds(is_premise_true(Self, rules[i].premise))

\* The first search_for_rules call of the query is entered with the goal and
\* an empty `visited`.
StartsFresh(goal, trace) ==
    /\ Len(trace) >= 1
    /\ trace[1].ev = "enter"
    /\ trace[1].goal = goal
    /\ trace[1].visited = <<>>

\* The step is a query for the goal of the query that has just returned.
QueriesAgain ==
    /\ Returned("specify_goal")
    /\ SpecifyGoal(call.goal)

\* C30: every query starts from an empty `visited`, and a query made right
\* after a query for the same goal returns what that one returned, by the
\* same search.
C30_QueriesIndependent ==
    /\ [](call.op = "specify_goal" => StartsFresh(call.goal, call.trace))
    /\ [][QueriesAgain => /\ status' = "running"
                          /\ call'.ret = call.ret
                          /\ call'.trace = call.trace]_vars

\* The second of two queries for a goal that the search leaves in `visited`
\* when it returns true: it returned true again.
C30_Witness ==
    /\ Returned("specify_goal")
    /\ call.again
    /\ call.ret
    /\ VecContains(call.trace[Len(call.trace)].visited, call.goal)
    /\ StartsFresh(call.goal, call.trace)

(***************************************************************************)
(* Properties of the variable bindings and of the frame of the calls       *)
(***************************************************************************)

\* Binding maps other than the empty one.
OtherBindings == {MapInsert(EmptyMap, "x", Integer(1)),
                  MapInsert(MapInsert(EmptyMap, "x", Text("on")), "y", Boolean(TRUE))}

\* The engine with another binding map.
WithBindings(self, bindings) == [self EXCEPT !.variable_bindings = bindings]

\* How a call that left r ended.
StatusOf(r) == IF r.panic THEN "panicked" ELSE IF r.diverged THEN "diverged" ELSE "running"

\* The observed driver call left the facts and ended as the call that left r.
SameFacts(r) ==
    /\ facts = r.self.facts
    /\ status = StatusOf(r)
    /\ panic_msg = r.msg

\* The observed query returned and ended as the query that left r.
SameAnswer(r) ==
    /\ call.ret = r.ret
    /\ status = StatusOf(r)
    /\ panic_msg = r.msg

\* C31: an engine with the same symbols, facts and rules and another binding
\* map gets the same fact sequence from either forward driver, the same
\* result from every query, and the same fatal errors.
C31_BindingsIrrelevant ==
    \A bindings \in OtherBindings :
        /\ call.op = "forward_chaining"
              => SameFacts(forward_chaining(WithBindings(call.pre, bindings)))
        /\ call.op = "forward_chaining_with_variables"
              => SameFacts(forward_chaining_with_variables(WithBindings(call.pre, bindings)))
        /\ call.op = "specify_goal"
              => SameAnswer(specify_goal(WithBindings(call.pre, bindings), call.goal))

\* A fixpoint call that appended a fact, as it does on the engine with a
\* variable bound.
C31_Witness ==
    /\ Returned("forward_chaining_with_variables")
    /\ Len(facts) > Len(call.pre.facts)
    /\ call.pre.variable_bindings = EmptyMap
    /\ \A bindings \in OtherBindings :
          forward_chaining_with_variables(WithBindings(call.pre, bindings)).self.facts = facts

\* The observed call is one of the inference calls.
Inferred == call.op \in {"forward_chaining", "forward_chaining_with_variables", "specify_goal"}

\* C32: after an inference call the binding map is the one before the call,
\* so determine_variable_value returns for every name what it returned before;
\* and match_rule, when it returns Some on a premise of a rule, returns a map
\* equal to the engine's bindings.
C32_BindingsUnchanged ==
    Inferred =>
        /\ variable_bindings = call.pre.variable_bindings
        /\ \A n \in VarNames :
              determine_variable_value(Self, n) = determine_variable_value(call.pre, n)
        /\ \A i \in 1..Len(call.pre.rules) :
              match_rule(call.pre, call.pre.rules[i].premise).some
                  => match_rule(call.pre, call.pre.rules[i].premise).bindings
                         = call.pre.variable_bindings

\* A fixpoint call that fired a rule and appended its conclusion on an engine
\* with x bound.
C32_Witness ==
    /\ Returned("forward_chaining_with_variables")
    /\ Len(facts) > Len(call.pre.facts)
    /\ determine_variable_value(call.pre, "x") # <<>>
    /\ determine_variable_value(Self, "x") = determine_variable_value(call.pre, "x")

\* C33: a query, whether it returns true or false, leaves the facts, the
\* rules, the symbols and the bindings as they were: neither the goal nor a
\* subgoal proven on the way is stored.
C33_QueryReadOnly ==
    call.op = "specify_goal" =>
        /\ facts = call.pre.facts
        /\ rules = call.pre.rules
        /\ symbols = call.pre.symbols
        /\ variable_bindings = call.pre.variable_bindings

\* A query that returned true for a goal that is not stored, proven through
\* a rule and a subgoal searched below it.
C33_Witness ==
    /\ Returned("specify_goal")
    /\ call.ret
    /\ ~VecContains(facts, call.goal)
    /\ \E k \in 1..Len(call.trace) :
          /\ call.trace[k].ev = "return"
          /\ call.trace[k].ret
          /\ Len(call.trace[k].ancestors) >= 1
          /\ ~VecContains(facts, call.trace[k].goal)

\* C34: a forward_chaining call that panics leaves the facts it found; a
\* forward_chaining_with_variables call that panics leaves the facts as they
\* were at the start of the iteration that panicked: the facts before the
\* call followed by those the completed iterations appended.
C34_NoPartialPass ==
    status = "panicked" =>
        /\ call.op = "forward_chaining" => facts = call.pre.facts
        /\ call.op = "forward_chaining_with_variables" =>
              /\ IsPrefix(call.pre.facts, facts)
              /\ Len(facts) = call.fact_counts[Len(call.fact_counts)]
              /\ MatchRules([call.pre EXCEPT !.facts = facts], 1, <<>>).panic

\* A fixpoint call that panicked in a later iteration, the facts of the
\* completed ones stored.
C34_Witness ==
    /\ status = "panicked"
    /\ call.op = "forward_chaining_with_variables"
    /\ Len(call.fact_counts) >= 2
    /\ Len(facts) > Len(call.pre.facts)

(***************************************************************************)
(* Properties that relate the forward drivers                              *)
(***************************************************************************)

RECURSIVE Logical(_)
\* A premise without relational operators: AtomicFact, And, Or and Not only.
Logical(e) ==
    \/ e.op = "AtomicFact"
    \/ /\ e.op \in {"And", "Or", "Not"}
       /\ \A i \in 1..Len(e.args) : Logical(e.args[i])

LogicalRules(rs) == \A i \in 1..Len(rs) : Logical(rs[i].premise)

\* The orders of n rules.
Orders(n) == {p \in [1..n -> 1..n] : \A i \in 1..n : \A j \in 1..n : i # j => p[i] # p[j]}

\* The engine with its rules defined in another order.
Reordered(self, p) == [self EXCEPT !.rules = [i \in 1..Len(self.rules) |-> self.rules[p[i]]]]

\* The call that left r returned with the set of facts of the observed state.
SameFactSet(r) == Returns(r) /\ FactSet(r.self.facts) = FactSet(facts)

\* C35: with no relational operator in the rules, a returned
\* forward_chaining_with_variables call leaves the set of facts that it
\* leaves with the same rules defined in any other order.
C35_RuleOrderIrrelevant ==
    (Returned("forward_chaining_with_variables") /\ LogicalRules(call.pre.rules))
        => \A p \in Orders(Len(call.pre.rules)) :
              SameFactSet(forward_chaining_with_variables(Reordered(call.pre, p)))

\* A fixpoint call over three rules that leaves its facts in another order
\* when the rules are defined in another order.
C35_Witness ==
    /\ Returned("forward_chaining_with_variables")
    /\ LogicalRules(rules)
    /\ Len(rules) = 3
    /\ Len(facts) >= Len(call.pre.facts) + 2
    /\ \E p \in Orders(3) :
          forward_chaining_with_variables(Reordered(call.pre, p)).self.facts # facts

\* What repeated forward_chaining calls leave: the engine, whether a call
\* panicked, and whether the last call added no fact.
Passes(panic, stable, self) == [panic |-> panic, stable |-> stable, self |-> self]

RECURSIVE Repeated(_, _)
\* The n-th forward_chaining call left r on the engine `self`.
RepeatedNext(self, n, r) ==
    IF r.panic THEN Passes(TRUE, FALSE, r.self)
    ELSE IF Len(r.self.facts) = Len(self.facts) THEN Passes(FALSE, TRUE, r.self)
    ELSE IF n > Len(self.rules) THEN Passes(FALSE, FALSE, r.self)
    ELSE Repeated(r.self, n + 1)

\* forward_chaining called again and again, from the n-th call on, until a
\* call adds no fact; given up after Len(self.rules) + 1 calls.
Repeated(self, n) == RepeatedNext(self, n, forward_chaining(self))

\* The call that left `passes` ended with a call that added no fact, with
\* the set of facts of the observed state.
SameFixpoint(passes) == passes.stable /\ FactSet(passes.self.facts) = FactSet(facts)

\* The forward_chaining call that left r returned with the given set of facts.
SamePass(r, fact_set) == ~r.panic /\ FactSet(r.self.facts) = fact_set

\* C36: forward_chaining called until a call adds no fact reaches the set of
\* facts that one returned forward_chaining_with_variables call leaves, and
\* the first iteration of forward_chaining_with_variables leaves the set of
\* facts that one forward_chaining call leaves.
C36_DriversAgree ==
    /\ Returned("forward_chaining_with_variables")
          => SameFixpoint(Repeated(call.pre, 1))
    /\ (call.op = "forward_chaining_with_variables" /\ Len(call.fact_counts) >= 2)
          => SamePass(forward_chaining(call.pre),
                      FactSet(SubSeq(facts, 1, call.fact_counts[2])))

\* A fixpoint call that returned after two iterations that appended facts.
C36_Witness ==
    /\ Returned("forward_chaining_with_variables")
    /\ Len(call.fact_counts) >= 4
    /\ call.fact_counts[1] < call.fact_counts[2]
    /\ call.fact_counts[2] < call.fact_counts[3]
    /\ Repeated(call.pre, 1).stable

\* Whether evaluate_logical_expression returns Some for the premise, in
\* forward mode (without `visited`) or in backward mode (with an empty one).
SomeIn(self, e, use_backward_chaining) ==
    evaluate_logical_expression(self, e, self.variable_bindings, use_backward_chaining,
                                IF use_backward_chaining THEN Ctx(TRUE, <<>>, <<>>, <<>>)
                                ELSE NoVisited).some

\* And([]) is true and Or([]) is false on the engine, for is_premise_true
\* and for evaluate_logical_expression in both modes.
EmptyConnectives(self) ==
    /\ is_premise_true(self, And(<<>>)) = BoolOk(TRUE)
    /\ is_premise_true(self, Or(<<>>)) = BoolOk(FALSE)
    /\ \A use_backward_chaining \in BOOLEAN :
          /\ SomeIn(self, And(<<>>), use_backward_chaining)
          /\ ~SomeIn(self, Or(<<>>), use_backward_chaining)

\* The conclusions of the rules whose premise is And([]).
Unconditional(self) ==
    {self.rules[i].conclusion : i \in {k \in 1..Len(self.rules) : self.rules[k].premise = And(<<>>)}}

\* The observed call is a forward pass over rules of which one has the
\* premise And([]), or a query on an engine without facts for the conclusion
\* of such a rule.
PassOrQuery ==
    \/ /\ call.op \in {"forward_chaining", "forward_chaining_with_variables"}
       /\ Unconditional(call.pre) # {}
    \/ /\ call.op = "specify_goal"
       /\ Len(call.pre.facts) = 0
       /\ call.goal \in Unconditional(call.pre)

\* The conclusions of the rules whose premise is And([]) are stored after
\* the pass, or the query returned true.
FiredOrProven ==
    IF call.op = "specify_goal" THEN call.ret
    ELSE \A f \in Unconditional(call.pre) : \E k \in 1..Len(facts) : facts[k] = f

\* C37: And([]) evaluates true and Or([]) false in both evaluators and both
\* modes; and, with no relational operator in the rules, so that no call ends
\* in a fatal error, every forward pass stores the conclusion of a rule whose
\* premise is And([]), and a query for it with no facts stored returns true.
C37_EmptyConnectives ==
    /\ EmptyConnectives(call.pre)
    /\ (PassOrQuery /\ LogicalRules(call.pre.rules))
          => (status # "panicked" /\ FiredOrProven)

====
